---- MODULE Spec2Model ----
(***************************************************************************)
(* Model of the document-ingestion backend of chelly1221/haystack:         *)
(*   - the heading-based PDF section splitter                              *)
(*     (util/pdf/pdf_splitter.py, split_pdf_by_section_headings),          *)
(*   - the token-window splitters (pdf_splitter.py, docx.py, pptx.py),     *)
(*   - per-page text assembly (clean_text_by_fixed_margins_with_tables),   *)
(*     header/footer detection, tables as text and image extraction,       *)
(*   - the upload task queue, its single worker and the task manager       *)
(*     (api/background_upload.py, task_manager_sqlite.py).                 *)
(* Each component has its own specification (SpecSplit, SpecWindow,        *)
(* SpecClean, SpecTasks), and so have the parts of the PDF text pipeline   *)
(* (SpecContent, SpecDetect, SpecTable, SpecImages); the variables of the  *)
(* other components stay at their idle values.                             *)
(***************************************************************************)
EXTENDS Integers, Sequences, FiniteSets, TLC

VARIABLES
    \* ---- split_pdf_by_section_headings ----
    page_texts,   \* list of page texts; a page is a sequence of lines
    matches,      \* heading matches, sorted by (page_idx, actual_start)
    idx,          \* loop index of "for idx, item in enumerate(matches)" (1-based)
    split,        \* the loop-local state of the section builder (record)
    spc,          \* position: "scan" | "build" | "done" | "idle"
    \* ---- split_*_by_token_window ----
    win,          \* arguments and loop variables of the token-window splitter
    wpc,          \* position: "loop" | "done" | "idle"
    \* ---- clean_text_by_fixed_margins_with_tables ----
    clean,        \* arguments and loop variables of the page-text assembly
    cpc,          \* position: "detect" | "pages" | "done" | "idle"
    \* ---- upload tasks: task_manager_sqlite.py, api/background_upload.py ----
    tasks,            \* the rows of the tasks table, by task id
    uploads_dir,      \* the files that exist under ./uploads
    processing_queue, \* task_manager.processing_queue
    requests,         \* upload requests suspended at "await file.read()"
    worker,           \* the background worker: what it waits for, its task
    document_store,   \* the documents written, as [task, batch] records
    clock,            \* datetime.now(), in minutes
    runs,             \* what each call of process_file_task did (history)
    cancelled,        \* the task ids cancel_task returned True for (history)
    \* ---- extract_page_content_with_tables (pdf_text_processor.py) ----
    content,      \* the page, its tables and the content blocks built so far
    epc,          \* position: "call" | "tables" | "done" | "raised" | "idle"
    \* ---- HeaderFooterDetector, auto_detect_margins (pdf_splitter.py) ----
    detect,       \* the document, the caller's ratios and the detector's fields
    dpc,          \* position: "detect" | "ratios" | "apply" | "done" | "raised" | "idle"
    \* ---- table_to_text (table_formatter.py) ----
    table,        \* the arguments of table_to_text and the text it returned
    tpc,          \* position: "call" | "done" | "idle"
    \* ---- extract_images_from_pdf (pdf_image_extractor.py) ----
    images,       \* the PDF's images, the files saved and the maps returned
    ipc,          \* position: "extract" | "done" | "idle"
    \* ---- parse_cell_structure (table_formatter.py) ----
    cell_call,    \* the lines and values of a cell and the structure returned
    lpc,          \* position: "call" | "done" | "idle"
    \* ---- ConnectionManager, websocket_endpoint (api/websocket_handler.py) ----
    active_connections, \* manager.active_connections: the sockets of each key
    endpoints           \* the call of websocket_endpoint for each socket

splitVars == <<page_texts, matches, idx, split, spc>>
windowVars == <<win, wpc>>
cleanVars == <<clean, cpc>>

taskVars == <<tasks, uploads_dir, processing_queue, requests, worker,
              document_store, clock, runs, cancelled>>

contentVars == <<content, epc>>
detectVars == <<detect, dpc>>
tableVars == <<table, tpc>>
imageVars == <<images, ipc>>
pdfVars == <<contentVars, detectVars, tableVars, imageVars>>
coreVars == <<splitVars, windowVars, cleanVars, taskVars>>
cellVars == <<cell_call, lpc>>
socketVars == <<active_connections, endpoints>>
restVars == <<cellVars, socketVars>>

vars == <<coreVars, pdfVars, restVars>>

(***************************************************************************)
(* Generic helpers                                                         *)
(***************************************************************************)
Front(s) == SubSeq(s, 1, Len(s) - 1)
Last(s) == s[Len(s)]
Min(a, b) == IF a < b THEN a ELSE b
Max(a, b) == IF a > b THEN a ELSE b

RECURSIVE Concat(_)
Concat(ss) == IF ss = <<>> THEN <<>> ELSE Head(ss) \o Concat(Tail(ss))

(***************************************************************************)
(* Lines of the assembled page text.  A line is a record [kind, num]:      *)
(*   "ch"  : a chapter heading "제 N 장",          num = <<N>>              *)
(*   "app" : an appendix heading "첨부 N",         num = <<N>>              *)
(*   "num" : a numeric heading "a.b.c Title",      num = <<a, b, c>>        *)
(*   "txt" : a line of plain text,                 num = <<>>              *)
(*   "tbl" : one serialized table, begin marker to end marker; num = <<g>>  *)
(*           names its marker pair (table N of page P) by the line's       *)
(*           position g in the document, so every table has its own pair.  *)
(***************************************************************************)
CH(n) == [kind |-> "ch", num |-> <<n>>]
APP(n) == [kind |-> "app", num |-> <<n>>]
NUM(p) == [kind |-> "num", num |-> p]
TXT == [kind |-> "txt", num |-> <<>>]
TBL == [kind |-> "tbl", num |-> <<>>]

\* Bounds of the documents explored.
MaxLines == 5
PageLen == 2

\* The headings a document is drawn from: every document uses the headings of
\* one family, plus plain text lines and tables.
HeadingFamilies ==
    { {CH(1), NUM(<<1, 1>>), NUM(<<1, 2>>), NUM(<<1, 4>>)},
      {CH(1), NUM(<<1, 1, 1>>), NUM(<<1, 1, 2>>), NUM(<<1, 1, 4>>)},
      {CH(1), CH(2), NUM(<<1, 1>>), NUM(<<2, 1>>)},
      {CH(1), CH(3), NUM(<<3, 1>>), NUM(<<3, 1, 2>>)},
      {CH(1), CH(6), APP(1), APP(3)},
      {CH(1), CH(6), APP(1), NUM(<<6, 1>>)} }

Documents ==
    UNION { UNION { [1..n -> fam \cup {TXT, TBL}] : n \in 1..MaxLines }
            : fam \in HeadingFamilies }

LabelTables(doc) ==
    [g \in 1..Len(doc) |->
        IF doc[g].kind = "tbl" THEN [kind |-> "tbl", num |-> <<g>>] ELSE doc[g]]

\* The document cut into pages of PageLen lines.
Pages(doc) ==
    LET n == (Len(doc) + PageLen - 1) \div PageLen
    IN [p \in 1..n |-> SubSeq(doc, (p - 1) * PageLen + 1, Min(p * PageLen, Len(doc)))]

NoChapter == -1     \* expected_chapter_num = None

(***************************************************************************)
(* Match collection (pdf_splitter.py 752-792)                              *)
(***************************************************************************)
\* remove_table_content followed by re.finditer(pattern): tables are removed
\* before matching, so only heading lines match.
IsHeadingLine(line) == line.kind \in {"ch", "app", "num"}

\* page_text.find(match_text): the first place of the page holding that text.
Find(page, line) ==
    CHOOSE i \in 1..Len(page) :
        /\ page[i] = line
        /\ \A j \in 1..(i - 1) : page[j] # line

RECURSIVE CollectFrom(_, _, _, _)
CollectFrom(pt, p, i, korean_chapter_count) ==
    IF p > Len(pt) THEN <<>>
    ELSE IF i > Len(pt[p]) THEN CollectFrom(pt, p + 1, 1, korean_chapter_count)
    ELSE LET line == pt[p][i] IN
         IF ~IsHeadingLine(line) THEN CollectFrom(pt, p, i + 1, korean_chapter_count)
         ELSE LET k == IF line.kind = "ch" THEN korean_chapter_count + 1
                       ELSE korean_chapter_count
                  \* "Skip the first occurrence of 제 1 장"
                  skipped == line.kind = "ch" /\ k = 1 /\ line.num = <<1>>
                  m == [page_idx |-> p, actual_start |-> Find(pt[p], line),
                        match_text |-> line]
              IN (IF skipped THEN <<>> ELSE <<m>>) \o CollectFrom(pt, p, i + 1, k)

Before(a, b) ==
    \/ a.page_idx < b.page_idx
    \/ a.page_idx = b.page_idx /\ a.actual_start < b.actual_start

\* matches.sort(key=(page_idx, actual_start)): a stable sort.
RECURSIVE SortMatches(_)
SortMatches(ms) ==
    IF ms = <<>> THEN <<>>
    ELSE LET s == SortMatches(Front(ms))
             m == Last(ms)
             k == Cardinality({j \in 1..Len(s) : ~Before(m, s[j])})
         IN SubSeq(s, 1, k) \o <<m>> \o SubSeq(s, k + 1, Len(s))

CollectMatches(pt) == SortMatches(CollectFrom(pt, 1, 1, 0))

\* section_title_counts[section_number] (Counter over all matches)
section_title_counts(ms, section_number) ==
    Cardinality({j \in 1..Len(ms) : ms[j].match_text = section_number})

(***************************************************************************)
(* Content of a heading: the lines up to the next match (922-960)          *)
(***************************************************************************)
\* heuristic_join_lines joins wrapped lines into paragraphs and keeps table
\* lines verbatim; it keeps every line's text and the order of the lines.  A
\* token stands for the text of a line wherever the line breaks fall, so the
\* sequence of tokens is the same before and after.
heuristic_join_lines(lines) == lines

SectionLines(pt, ms, i) ==
    LET item == ms[i]
        page_idx == item.page_idx
        page_text == pt[page_idx]
        hasNext == i + 1 <= Len(ms)
        next_page_idx == IF hasNext THEN ms[i + 1].page_idx ELSE Len(pt) + 1
        next_actual_start == IF hasNext THEN ms[i + 1].actual_start ELSE 0
    IN IF hasNext /\ next_page_idx = page_idx
       THEN SubSeq(page_text, item.actual_start + 1, next_actual_start - 1)
       ELSE SubSeq(page_text, item.actual_start + 1, Len(page_text))
            \o Concat([q \in 1..(next_page_idx - page_idx - 1) |-> pt[page_idx + q]])
            \o (IF hasNext /\ next_page_idx <= Len(pt)
                THEN SubSeq(pt[next_page_idx], 1, next_actual_start - 1)
                ELSE <<>>)

(***************************************************************************)
(* Sequence checks (835-917)                                               *)
(***************************************************************************)
RECURSIVE BackToHigher(_, _, _)
BackToHigher(prev, current, i) ==
    IF i > Min(Len(prev), Len(current)) THEN FALSE
    ELSE IF current[i] = prev[i] THEN BackToHigher(prev, current, i + 1)
    ELSE IF current[i] = prev[i] + 1
         THEN \A j \in (i + 1)..Len(current) : current[j] = 1
    ELSE FALSE

is_strictly_next(prev, current, current_chapter, current_chapter_sections) ==
    IF current_chapter # NoChapter /\ Len(current) >= 1 /\ current[1] = current_chapter
    THEN current \notin current_chapter_sections
    ELSE IF prev = <<>> THEN TRUE
    ELSE IF Len(current) = Len(prev)
         THEN Front(current) = Front(prev) /\ Last(current) = Last(prev) + 1
    ELSE IF Len(current) = Len(prev) + 1
         THEN Front(current) = prev /\ Last(current) = 1
    ELSE BackToHigher(prev, current, 1)

is_out_of_order(current, current_chapter, current_chapter_sections) ==
    IF current_chapter = NoChapter \/ Len(current) < 1 THEN FALSE
    ELSE IF current[1] # current_chapter THEN TRUE
    ELSE \E existing \in current_chapter_sections :
            \/ /\ Len(current) < Len(existing)
               /\ SubSeq(existing, 1, Len(current)) = current
            \/ /\ Len(current) = Len(existing)
               /\ Front(current) = Front(existing)
               /\ Last(current) < Last(existing)

\* hash_text: the digest of the text, taken to be collision free.
hash_text(text) == [digest_of |-> text]

(***************************************************************************)
(* The section builder: one iteration of the loop over matches (922-1176)  *)
(***************************************************************************)
\* State before the loop (822-833).
SplitStart ==
    [ sections |-> <<>>,
      section_hierarchy |-> {},
      seen_section_numbers |-> {},
      collect |-> FALSE,
      last_valid_number |-> <<>>,          \* <<>> stands for None
      merged_out_of_order |-> {},
      merged_content_cache |-> {},
      expecting_next_subsection |-> FALSE,
      expected_chapter_num |-> NoChapter,
      in_appendix_mode |-> FALSE,
      last_appendix_num |-> 0,
      current_chapter_sections |-> {},
      log |-> <<>> ]

\* section_number_list: parse_number for a numeric heading, [chapter_num] for a
\* chapter, [999, appendix_num] for an appendix.
section_number_list(line) ==
    IF line.kind = "app" THEN <<999>> \o line.num ELSE line.num

\* What the loop prints about a heading: it was emitted as a section, merged
\* into the previous one, or left out.  prev and collecting are the values of
\* last_valid_number and collect when the iteration began.
WithLog(s0, s, item, what) ==
    [s EXCEPT !.log = Append(@, [ item |-> item.match_text, what |-> what,
                                  prev |-> s0.last_valid_number,
                                  collecting |-> s0.collect ])]

\* sections[-1]["content"] += ...
AppendToLast(sections, text) ==
    [sections EXCEPT ![Len(sections)].content = @ \o text]

\* merge_out_of_order_section (902-913): whether it merges, and the merge.
CanMerge(s, text) ==
    s.sections # <<>> /\ hash_text(text) \notin s.merged_content_cache

merge_out_of_order_section(s, section_title_raw, section_content, section_number) ==
    [s EXCEPT !.sections = AppendToLast(@, <<section_title_raw>> \o section_content),
              !.merged_content_cache = @ \cup {hash_text(section_content)},
              !.merged_out_of_order = @ \cup {section_number}]

\* A merge that appends the heading text and loses the heading's body.
MergeNotNext_TitleOnly(s, section_title_raw, section_content, section_number) ==
    LET merged_text == <<section_title_raw>> \o section_content
    IN [s EXCEPT !.sections = AppendToLast(@, <<section_title_raw>>),
                 !.merged_out_of_order = @ \cup {section_number},
                 !.merged_content_cache = @ \cup {hash_text(merged_text)},
                 !.seen_section_numbers = @ \cup {section_number}]

\* 1082-1090: the merge of a heading that is not strictly next.
MergeNotNext(s, section_title_raw, section_content, section_number) ==
    LET merged_text == <<section_title_raw>> \o section_content
    IN [s EXCEPT !.sections = AppendToLast(@, merged_text),
                 !.merged_out_of_order = @ \cup {section_number},
                 !.merged_content_cache = @ \cup {hash_text(merged_text)},
                 !.seen_section_numbers = @ \cup {section_number}]

\* 1106-1126: the hierarchy after a heading of the given depth.
UpdateHierarchy(hierarchy, depth, section_number) ==
    {e \in hierarchy : e.depth < depth}
        \cup {[depth |-> depth, id |-> section_number]}

\* 1128-1176: the section appended for an accepted heading.  The content is
\* the heading line followed by the body; the tree header prepended to it is
\* rendered from section_hierarchy, which the section carries.
NewSection(item, section_content, depth, hierarchy) ==
    LET parents == {e \in hierarchy : e.depth = depth - 1}
        display_title ==
            IF depth > 1 /\ parents # {}
            THEN (CHOOSE e \in parents : TRUE).id
            ELSE item.match_text
    IN [ title |-> display_title,
         section_id |-> item.match_text,
         content |-> <<item.match_text>> \o section_content,
         start_page |-> item.page_idx,
         section_hierarchy |-> hierarchy ]

\* 1057-1176: from "if not collect" to the append.
AcceptOrMerge(s0, s, ms, item, section_content) ==
    LET line == item.match_text
        l == section_number_list(line)
        is_korean_chapter == line.kind = "ch"
        is_appendix == line.kind = "app"
    IN
    IF ~s.collect THEN WithLog(s0, s, item, "ignored")
    ELSE IF /\ ~is_korean_chapter /\ ~is_appendix
            /\ s.last_valid_number # <<>>
            /\ ~is_strictly_next(s.last_valid_number, l, s.expected_chapter_num,
                                 s.current_chapter_sections)
    THEN IF section_title_counts(ms, line) > 1 THEN WithLog(s0, s, item, "skipped")
         ELSE IF line \in s.seen_section_numbers THEN WithLog(s0, s, item, "skipped")
         ELSE IF line \in s.merged_out_of_order THEN WithLog(s0, s, item, "skipped")
         ELSE IF CanMerge(s, <<line>> \o section_content)
              THEN WithLog(s0, MergeNotNext(s, line, section_content, line), item, "merged")
         ELSE WithLog(s0, s, item, "skipped")
    ELSE
        LET s1 == IF is_appendix /\ s.in_appendix_mode
                  THEN [s EXCEPT !.last_appendix_num = line.num[1]] ELSE s
            s2 == [s1 EXCEPT !.seen_section_numbers = @ \cup {line}]
            s3 == IF ~is_korean_chapter /\ ~is_appendix
                  THEN [s2 EXCEPT !.last_valid_number = l,
                                  !.current_chapter_sections = @ \cup {l}]
                  ELSE s2
            depth == IF is_korean_chapter \/ is_appendix THEN 0 ELSE Len(l)
            s4 == [s3 EXCEPT !.section_hierarchy = UpdateHierarchy(@, depth, line)]
        IN IF section_content = <<>> /\ ~is_korean_chapter /\ ~is_appendix /\ Len(l) >= 3
           THEN WithLog(s0, s4, item, "empty")
           ELSE WithLog(s0,
                    [s4 EXCEPT !.sections =
                        Append(@, NewSection(item, section_content, depth,
                                             s4.section_hierarchy))],
                    item, "emitted")

\* 1046-1055: "Skip 3.x sections with >2 levels": the body alone is appended.
LegacyThree(s0, s, ms, item, section_content) ==
    LET l == section_number_list(item.match_text)
    IN IF l[1] = 3 /\ Len(l) > 2
       THEN IF CanMerge(s, section_content)
            THEN WithLog(s0,
                     [s EXCEPT !.sections = AppendToLast(@, section_content),
                               !.merged_content_cache = @ \cup {hash_text(section_content)}],
                     item, "merged_body")
            ELSE WithLog(s0, s, item, "skipped")
       ELSE AcceptOrMerge(s0, s, ms, item, section_content)

\* 1039-1044: out of order within the current chapter.
OutOfOrderCheck(s0, s, ms, item, section_content) ==
    LET line == item.match_text
        l == section_number_list(line)
    IN IF /\ s.expected_chapter_num # NoChapter /\ Len(l) >= 1
          /\ l[1] = s.expected_chapter_num
          /\ is_out_of_order(l, s.expected_chapter_num, s.current_chapter_sections)
          /\ CanMerge(s, section_content)
       THEN WithLog(s0, merge_out_of_order_section(s, line, section_content, line),
                    item, "merged")
       ELSE LegacyThree(s0, s, ms, item, section_content)

\* 1014-1037: "Special handling after 제 N 장".
AfterChapter(s0, s, ms, item, section_content) ==
    LET line == item.match_text
        l == section_number_list(line)
        accepted == [s EXCEPT !.expecting_next_subsection = FALSE,
                              !.last_valid_number = l,
                              !.current_chapter_sections = @ \cup {l}]
    IN IF s.expecting_next_subsection /\ s.expected_chapter_num # NoChapter
       THEN IF Len(l) >= 2 /\ l[1] = s.expected_chapter_num /\ l[2] = 1
            THEN OutOfOrderCheck(s0, accepted, ms, item, section_content)
            ELSE IF Len(l) >= 1 /\ l[1] = s.expected_chapter_num
                 THEN IF is_out_of_order(l, s.expected_chapter_num,
                                         s.current_chapter_sections)
                      THEN IF CanMerge(s, section_content)
                           THEN WithLog(s0,
                                    merge_out_of_order_section(s, line, section_content, line),
                                    item, "merged")
                           ELSE OutOfOrderCheck(s0, s, ms, item, section_content)
                      ELSE OutOfOrderCheck(s0, accepted, ms, item, section_content)
                 ELSE WithLog(s0, s, item, "skipped")
       ELSE OutOfOrderCheck(s0, s, ms, item, section_content)

\* 962-1012: the kind of the heading.
BuildOne(s, ms, item, section_content) ==
    LET line == item.match_text
    IN CASE line.kind = "ch" ->
              LET chapter_num == line.num[1]
                  s1 == [s EXCEPT !.collect = @ \/ chapter_num = 1]
                  s2 == IF s1.collect
                        THEN [s1 EXCEPT !.expecting_next_subsection = TRUE,
                                        !.expected_chapter_num = chapter_num,
                                        !.last_valid_number = <<>>,
                                        !.in_appendix_mode = FALSE,
                                        !.current_chapter_sections = {}]
                        ELSE s1
              IN AcceptOrMerge(s, s2, ms, item, section_content)
         [] line.kind = "app" ->
              IF /\ s.collect
                 /\ s.expected_chapter_num # NoChapter /\ s.expected_chapter_num # 0
                 /\ s.expected_chapter_num >= 6
              THEN AfterChapter(s,
                       [s EXCEPT !.in_appendix_mode = TRUE,
                                 !.last_appendix_num = line.num[1],
                                 !.expecting_next_subsection = FALSE],
                       ms, item, section_content)
              ELSE WithLog(s, s, item, "skipped")
         [] OTHER -> AfterChapter(s, s, ms, item, section_content)

(***************************************************************************)
(* split_pdf_by_section_headings as a state machine                        *)
(***************************************************************************)
\* 760-817: collect and sort the heading matches.
ScanHeadings ==
    /\ spc = "scan"
    /\ matches' = CollectMatches(page_texts)
    /\ spc' = "build"
    /\ UNCHANGED <<page_texts, idx, split>>
    /\ UNCHANGED <<windowVars, cleanVars, taskVars, pdfVars, restVars>>

\* one iteration of "for idx, item in enumerate(matches)"
BuildSection ==
    /\ spc = "build"
    /\ idx <= Len(matches)
    /\ split' = BuildOne(split, matches, matches[idx],
                         heuristic_join_lines(SectionLines(page_texts, matches, idx)))
    /\ idx' = idx + 1
    /\ UNCHANGED <<page_texts, matches, spc>>
    /\ UNCHANGED <<windowVars, cleanVars, taskVars, pdfVars, restVars>>

\* return sections
ReturnSections ==
    /\ spc = "build"
    /\ idx > Len(matches)
    /\ spc' = "done"
    /\ UNCHANGED <<page_texts, matches, idx, split>>
    /\ UNCHANGED <<windowVars, cleanVars, taskVars, pdfVars, restVars>>

\* The whole function: the sections it returns for the given page texts.
RECURSIVE BuildFrom(_, _, _, _)
BuildFrom(pt, ms, i, s) ==
    IF i > Len(ms) THEN s
    ELSE BuildFrom(pt, ms, i + 1,
                   BuildOne(s, ms, ms[i], heuristic_join_lines(SectionLines(pt, ms, i))))

split_pdf_by_section_headings(pt) ==
    BuildFrom(pt, CollectMatches(pt), 1, SplitStart).sections

(***************************************************************************)
(* Token-window splitters: split_pdf_by_token_window (pdf_splitter.py      *)
(* 550-605), split_docx_by_token_window (docx.py 14-38) and                *)
(* split_pptx_by_token_window (pptx.py 20-44).  A document is given by the *)
(* number of tokens the tokenizer returns for each page (PDF) or for the   *)
(* joined text (DOCX, PPTX); a token is identified by its index.           *)
(***************************************************************************)
MaxPages == 2          \* pages of a PDF
MaxPageTokens == 3     \* tokens of one page
MaxWindow == 4         \* largest window_size and overlap
MaxChunks == 8         \* iterations of the loop that are followed

Variants == {"pdf", "docx", "pptx"}

RECURSIVE SeqsUpTo(_, _)
SeqsUpTo(S, n) ==
    IF n = 0 THEN {<<>>}
    ELSE LET shorter == SeqsUpTo(S, n - 1)
         IN shorter \cup {Append(q, x) : q \in {r \in shorter : Len(r) = n - 1}, x \in S}

RECURSIVE Sum(_)
Sum(counts) == IF counts = <<>> THEN 0 ELSE Head(counts) + Sum(Tail(counts))

\* 574-580: (start_idx, end_idx, page_number) of every page.
page_token_boundaries(counts) ==
    [i \in 1..Len(counts) |->
        [s_idx |-> Sum(SubSeq(counts, 1, i - 1)),
         e_idx |-> Sum(SubSeq(counts, 1, i)),
         page_num |-> i]]

\* 593: the first page whose token span holds the chunk's start, else 1.
start_page(boundaries, start) ==
    LET hits == {i \in 1..Len(boundaries) :
                    boundaries[i].s_idx <= start /\ start < boundaries[i].e_idx}
    IN IF hits = {} THEN 1
       ELSE boundaries[CHOOSE i \in hits : \A j \in hits : i <= j].page_num

\* all_tokens[start:end] of a list of n tokens, as the range of indices it
\* holds; a negative bound counts from the end of the list.
PyIndex(n, i) == IF i < 0 THEN Max(n + i, 0) ELSE Min(i, n)
PySlice(n, start, end) ==
    [from |-> PyIndex(n, start), to |-> Max(PyIndex(n, start), PyIndex(n, end))]

\* The arguments and the local variables before the loop (582-585).
WindowStart(variant, counts, window_size, overlap) ==
    [variant |-> variant,
     boundaries |-> page_token_boundaries(counts),
     total_tokens |-> Sum(counts),
     window_size |-> window_size,
     overlap |-> overlap,
     chunks |-> <<>>,
     start |-> 0,
     idx |-> 1]

\* An iteration that moves the window by window_size, ignoring the overlap.
window_iteration_NoOverlap(w) ==
    LET end == Min(w.start + w.window_size, w.total_tokens)
        text_chunk == [from |-> Min(w.start, w.total_tokens), to |-> end]
        chunk == [title |-> w.idx, content |-> text_chunk,
                  start_token |-> w.start, start_page |-> 1]
    IN [w EXCEPT !.chunks = Append(@, chunk),
                 !.idx = @ + 1,
                 !.start = @ + w.window_size]

\* One iteration of "while start < total_tokens" (587-603; docx.py 24-36;
\* pptx.py 30-42).  Only the PDF variant computes start_page.
window_iteration(w) ==
    LET end == Min(w.start + w.window_size, w.total_tokens)
        text_chunk == PySlice(w.total_tokens, w.start, end)
        chunk == IF w.variant = "pdf"
                 THEN [title |-> w.idx, content |-> text_chunk,
                       start_token |-> w.start,
                       start_page |-> start_page(w.boundaries, w.start)]
                 ELSE [title |-> w.idx, content |-> text_chunk,
                       start_token |-> w.start]
    IN [w EXCEPT !.chunks = Append(@, chunk),
                 !.idx = @ + 1,
                 !.start = @ + (w.window_size - w.overlap)]

WindowStep ==
    /\ wpc = "loop"
    /\ win.start < win.total_tokens
    /\ Len(win.chunks) < MaxChunks
    /\ win' = window_iteration(win)
    /\ UNCHANGED wpc
    /\ UNCHANGED <<splitVars, cleanVars, taskVars, pdfVars, restVars>>

\* return chunks
WindowReturn ==
    /\ wpc = "loop"
    /\ ~(win.start < win.total_tokens)
    /\ wpc' = "done"
    /\ UNCHANGED win
    /\ UNCHANGED <<splitVars, cleanVars, taskVars, pdfVars, restVars>>

(***************************************************************************)
(* Page-text assembly: clean_text_by_fixed_margins_with_tables             *)
(* (pdf_splitter.py 475-535).  A page is PageRows rows of equal height,    *)
(* each blank or holding a line of text; a margin ratio is a number of     *)
(* rows; the text of a row is identified by its page and row.              *)
(***************************************************************************)
PageRows == 3          \* rows of a page
MaxMargin == 2         \* largest margin, in rows

BlankRow == "blank"
TextRow == "text"
PdfPages == SeqsUpTo([1..PageRows -> {BlankRow, TextRow}], MaxPages) \ {<<>>}

CROPPING_FAILED == [marker |-> "[CROPPING FAILED]"]
Line(p, r) == [page |-> p, row |-> r]
ImageUrl(p) == [image_of_page |-> p]

\* The text of the rows lo..hi of page p, top to bottom; blank rows give no
\* line, so the text is already stripped.
RECURSIVE RowsText(_, _, _, _)
RowsText(pages, p, lo, hi) ==
    IF lo > hi THEN <<>>
    ELSE (IF pages[p][lo] = TextRow THEN <<Line(p, lo)>> ELSE <<>>)
         \o RowsText(pages, p, lo + 1, hi)

\* page.extract_text() on the whole page (527).
extract_text(pages, p) == RowsText(pages, p, 1, PageRows)

\* page.within_bbox((0, y0_from_top, width, y1_from_top)) followed by the
\* extraction of its content (507-519): the rows that lie inside the band.
cropped_content(pages, p, top, bottom) ==
    RowsText(pages, p, top + 1, PageRows - bottom)

\* insert_images_in_text (pdf_image_extractor.py 248-261): the image URLs of
\* the page are appended to its text.
insert_images_in_text(text, p, image_map) ==
    IF p \in image_map THEN text \o <<ImageUrl(p)>> ELSE text

\* The arguments and the local variables before the loop.
CleanStart(pages, top, bottom, image_map, auto_detect_header_footer) ==
    [pages |-> pages,
     top_margin_ratio |-> top,
     bottom_margin_ratio |-> bottom,
     image_map |-> image_map,
     auto_detect_header_footer |-> auto_detect_header_footer,
     cleaned_pages |-> <<>>,
     crop |-> <<>>]      \* per page: "text" | "empty" | "exception" (history)

\* 483-490: a detected margin replaces the caller's when it is positive.
DetectMargins ==
    /\ cpc = "detect"
    /\ \E detected_top \in 0..MaxMargin, detected_bottom \in 0..MaxMargin :
         clean' = IF clean.auto_detect_header_footer
                  THEN [clean EXCEPT
                          !.top_margin_ratio =
                              IF detected_top > 0 THEN detected_top ELSE @,
                          !.bottom_margin_ratio =
                              IF detected_bottom > 0 THEN detected_bottom ELSE @]
                  ELSE clean
    /\ cpc' = "pages"
    /\ UNCHANGED <<splitVars, windowVars, taskVars, pdfVars, restVars>>

\* One iteration of "for page_num, page in enumerate(pdf.pages, start=1)"
\* (498-533).  The crop or the extraction may raise.
page_content(c, p, raises) ==
    LET cropped == cropped_content(c.pages, p, c.top_margin_ratio,
                                   c.bottom_margin_ratio)
    IN IF raises THEN extract_text(c.pages, p)
       ELSE IF cropped = <<>> THEN <<CROPPING_FAILED>>
       ELSE cropped

CleanPage ==
    /\ cpc = "pages"
    /\ Len(clean.cleaned_pages) < Len(clean.pages)
    /\ \E raises \in BOOLEAN :
         LET p == Len(clean.cleaned_pages) + 1
             cropped == cropped_content(clean.pages, p, clean.top_margin_ratio,
                                        clean.bottom_margin_ratio)
         IN clean' = [clean EXCEPT
                !.cleaned_pages =
                    Append(@, insert_images_in_text(page_content(clean, p, raises),
                                                    p, clean.image_map)),
                !.crop = Append(@, IF raises THEN "exception"
                                   ELSE IF cropped = <<>> THEN "empty"
                                   ELSE "text")]
    /\ UNCHANGED cpc
    /\ UNCHANGED <<splitVars, windowVars, taskVars, pdfVars, restVars>>

\* return cleaned_pages
ReturnCleaned ==
    /\ cpc = "pages"
    /\ Len(clean.cleaned_pages) = Len(clean.pages)
    /\ cpc' = "done"
    /\ UNCHANGED clean
    /\ UNCHANGED <<splitVars, windowVars, taskVars, pdfVars, restVars>>

(***************************************************************************)
(* Upload tasks: TaskManager (task_manager_sqlite.py), the upload request, *)
(* the background worker and process_file_task (api/background_upload.py). *)
(* Everything runs on one event loop, so a step runs from one await to the *)
(* next without interruption.                                              *)
(***************************************************************************)
MaxTasks == 2          \* tasks created
TickMinutes == 10      \* minutes that pass between two observations
MaxClock == 20         \* minutes followed

\* TaskStatus (13-18)
UPLOADING == "uploading"
QUEUED == "queued"
PROCESSING == "processing"
COMPLETED == "completed"
FAILED == "failed"

NULL == "NULL"                   \* a text column without a value
stale_minutes == 10              \* timedelta(minutes=10)
batch_size == 100                \* documents written at a time
window_size_700 == 700           \* window_size passed by process_file_task
overlap_100 == 100               \* overlap passed by process_file_task

\* The files that get uploaded.  A file has an extension, the answer of
\* detect_maintenance_doc, its assembled page texts and the number of tokens
\* of each page (of the joined text for DOCX and PPTX).
ManualWithChapter == Pages(LabelTables(<<CH(1), CH(1), NUM(<<1, 1>>), TBL>>))
ManualWithoutChapter == Pages(LabelTables(<<NUM(<<1, 1, 1>>), TXT, NUM(<<1, 1, 2>>)>>))
PlainText == Pages(<<TXT, TXT, TXT>>)

UploadedFiles ==
    { [ext |-> ".pdf", is_maintenance |-> TRUE,
       page_texts |-> ManualWithChapter, page_tokens |-> <<9, 9>>],
      [ext |-> ".pdf", is_maintenance |-> TRUE,
       page_texts |-> ManualWithoutChapter, page_tokens |-> <<9, 9>>],
      [ext |-> ".pdf", is_maintenance |-> FALSE,
       page_texts |-> PlainText, page_tokens |-> <<window_size_700, 1>>],
      [ext |-> ".docx", is_maintenance |-> FALSE,
       page_texts |-> <<>>, page_tokens |-> <<0>>],
      [ext |-> ".pptx", is_maintenance |-> FALSE,
       page_texts |-> PlainText,
       page_tokens |-> <<(window_size_700 - overlap_100) * batch_size + 1>>] }

\* "./uploads/<uuid>_<filename>" and the same with ".meta.json" appended; the
\* uuid of a file is taken to be the number of its task.
FilePath(task_id, ext) == [uuid |-> task_id, ext |-> ext, meta_json |-> FALSE]
MetaPath(file_path) == [file_path EXCEPT !.meta_json = TRUE]
NoPath == [uuid |-> 0, ext |-> "", meta_json |-> FALSE]   \* file_path IS NULL

\* ---- TaskManager ----
\* create_task (81-99)
create_task(rows, task_id, now) ==
    [t \in DOMAIN rows \cup {task_id} |->
        IF t = task_id
        THEN [status |-> UPLOADING, error |-> NULL, file_path |-> NoPath,
              updated_at |-> now, is_dismissed |-> FALSE]
        ELSE rows[t]]

\* update_task_status (101-132): the status is written whatever it was.
update_task_status(rows, task_id, status, now) ==
    [t \in DOMAIN rows |->
        IF t = task_id THEN [rows[t] EXCEPT !.status = status, !.updated_at = now]
        ELSE rows[t]]

\* set_task_file_path (134-141)
set_task_file_path(rows, task_id, file_path, now) ==
    [t \in DOMAIN rows |->
        IF t = task_id THEN [rows[t] EXCEPT !.file_path = file_path, !.updated_at = now]
        ELSE rows[t]]

\* A complete_task that touches the row and leaves the status as it is.
complete_task_KeepsStatus(rows, task_id, now) ==
    [t \in DOMAIN rows |->
        IF t = task_id THEN [rows[t] EXCEPT !.updated_at = now]
        ELSE rows[t]]

\* complete_task (143-158)
complete_task(rows, task_id, now) ==
    [t \in DOMAIN rows |->
        IF t = task_id THEN [rows[t] EXCEPT !.status = COMPLETED, !.updated_at = now]
        ELSE rows[t]]

\* A fail_task that records the error and leaves the status as it is.
fail_task_KeepsStatus(rows, task_id, error, now) ==
    [t \in DOMAIN rows |->
        IF t = task_id THEN [rows[t] EXCEPT !.error = error, !.updated_at = now]
        ELSE rows[t]]

\* fail_task (160-175)
fail_task(rows, task_id, error, now) ==
    [t \in DOMAIN rows |->
        IF t = task_id
        THEN [rows[t] EXCEPT !.status = FAILED, !.error = error, !.updated_at = now]
        ELSE rows[t]]

\* get_task_file_path (306-314)
get_task_file_path(rows, task_id) ==
    IF task_id \in DOMAIN rows THEN rows[task_id].file_path ELSE NoPath

\* os.remove of a set of paths that exist.
Remove(dir, paths) == [p \in DOMAIN dir \ paths |-> dir[p]]

\* "if file_path and os.path.exists(file_path): os.remove(file_path) ...
\*  if os.path.exists(meta_path): os.remove(meta_path)" as TaskManager does it
\* (364-372, 474-482): the .meta.json is looked at only if the file exists.
remove_task_files(dir, file_path) ==
    IF file_path # NoPath /\ file_path \in DOMAIN dir
    THEN Remove(dir, {file_path, MetaPath(file_path)})
    ELSE dir

\* A removal that deletes the uploaded file and leaves its .meta.json.
remove_upload_files_KeepsMeta(dir, file_path) ==
    IF file_path = NoPath THEN dir
    ELSE Remove(dir, {file_path})

\* The same in process_file_task and dismiss_task (background_upload.py
\* 192-197, 482-488): the .meta.json is removed whether or not the file
\* exists, unless there is no path, which raises and is swallowed.
remove_upload_files(dir, file_path) ==
    IF file_path = NoPath THEN dir
    ELSE Remove(dir, {file_path, MetaPath(file_path)})

\* ---- process_file_task (240-493) ----
SectionSplitter == "split_pdf_by_section_headings"
WindowSplitter(ext) ==
    IF ext = ".pdf" THEN "split_pdf_by_token_window"
    ELSE IF ext = ".docx" THEN "split_docx_by_token_window"
    ELSE "split_pptx_by_token_window"

\* 276-370: the splitter that is called for the file, and what it returns.
splitter_for(file) ==
    IF file.ext = ".pdf" /\ file.is_maintenance THEN SectionSplitter
    ELSE WindowSplitter(file.ext)

\* The number of chunks a token-window splitter returns: the iterations of
\* "while start < total_tokens: ... start += window_size - overlap".
RECURSIVE window_chunks(_, _, _)
window_chunks(start, total_tokens, stride) ==
    IF start < total_tokens
    THEN 1 + window_chunks(start + stride, total_tokens, stride)
    ELSE 0

\* len(sections) for the file.
sections_of(file) ==
    IF file.ext = ".pdf" /\ file.is_maintenance
    THEN Len(split_pdf_by_section_headings(file.page_texts))
    ELSE window_chunks(0, Sum(file.page_tokens), window_size_700 - overlap_100)

WorkerWaiting == [at |-> "get", task_id |-> 0, file_path |-> NoPath,
                  valid_docs |-> 0, written |-> 0]

\* The documents valid_docs[i:i+batch_size] of a task (440-442).
Batch(task_id, i, valid_docs) ==
    [task_id |-> task_id, first |-> i, last |-> Min(i + batch_size, valid_docs) - 1]

\* 472-490: the exception handler; the worker then waits for the next task.
Failed(s, task_id, error_msg, run, now) ==
    [rows |-> fail_task(s.rows, task_id, error_msg, now),
     dir |-> remove_upload_files(s.dir, get_task_file_path(s.rows, task_id)),
     store |-> s.store,
     worker |-> WorkerWaiting,
     run |-> [run EXCEPT !.ended = TRUE, !.error = error_msg]]

\* 250-445: process_file_task from its call to its first await (the sleep
\* after the first batch is written) or to its end.  The splitter, the
\* embedder and the document store may raise.
process_file_task(s, task_id, now, sections, splitter_raises, embedded, write_raises) ==
    LET s1 == [s EXCEPT !.rows = update_task_status(@, task_id, PROCESSING, now)]
        file_path == get_task_file_path(s1.rows, task_id)
        file == s1.dir[file_path]
        run0 == [splitters |-> <<>>, sections |-> -1, ended |-> FALSE, error |-> NULL]
        run1 == [run0 EXCEPT !.splitters = <<splitter_for(file)>>]
        run2 == [run1 EXCEPT !.sections = sections]
        valid_docs == IF embedded THEN sections ELSE 0
    IN IF file_path = NoPath \/ file_path \notin DOMAIN s1.dir
       THEN Failed(s1, task_id, "file not found", run0, now)
       ELSE IF MetaPath(file_path) \notin DOMAIN s1.dir
       THEN Failed(s1, task_id, "metadata file not found", run0, now)
       ELSE IF splitter_raises
       THEN Failed(s1, task_id, "processing failed", run1, now)
       ELSE IF sections = 0
       THEN Failed(s1, task_id, "no content extracted from the document", run2, now)
       ELSE IF valid_docs = 0
       THEN Failed(s1, task_id, "no valid embedded documents", run2, now)
       ELSE IF write_raises
       THEN Failed(s1, task_id, "database write failed", run2, now)
       ELSE [rows |-> update_task_status(s1.rows, task_id, PROCESSING, now),
             dir |-> s1.dir,
             store |-> s1.store \cup {Batch(task_id, 0, valid_docs)},
             worker |-> [at |-> "sleep", task_id |-> task_id,
                         file_path |-> file_path, valid_docs |-> valid_docs,
                         written |-> Min(batch_size, valid_docs)],
             run |-> run2]

\* len(sections) for the uploaded file of a task; 0 when the file is gone.
SectionsOfTask(task_id) ==
    LET file_path == get_task_file_path(tasks, task_id)
    IN IF file_path \in DOMAIN uploads_dir THEN sections_of(uploads_dir[file_path]) ELSE 0

Current == [rows |-> tasks, dir |-> uploads_dir, store |-> document_store]

\* start_background_worker (16-39): the worker takes the next task id from
\* the queue and awaits process_file_task.
WorkerGet ==
    /\ worker.at = "get"
    /\ processing_queue # <<>>
    /\ LET task_id == Head(processing_queue)
       IN \E sections \in {SectionsOfTask(task_id)},
             splitter_raises \in BOOLEAN, embedded \in BOOLEAN, write_raises \in BOOLEAN :
            \E out \in {process_file_task(Current, task_id, clock, sections,
                                          splitter_raises, embedded, write_raises)} :
               /\ tasks' = out.rows
               /\ uploads_dir' = out.dir
               /\ document_store' = out.store
               /\ worker' = out.worker
               /\ runs' = [t \in DOMAIN runs \cup {task_id} |->
                              IF t = task_id THEN out.run ELSE runs[t]]
    /\ processing_queue' = Tail(processing_queue)
    /\ UNCHANGED <<requests, clock, cancelled>>
    /\ UNCHANGED <<splitVars, windowVars, cleanVars, pdfVars, restVars>>

\* 440-445: after the sleep, the next batch is written, or the write raises.
WorkerWriteBatch ==
    /\ worker.at = "sleep"
    /\ worker.written < worker.valid_docs
    /\ \E write_raises \in BOOLEAN :
         IF write_raises
         THEN LET out == Failed(Current, worker.task_id, "database write failed",
                                runs[worker.task_id], clock)
              IN /\ tasks' = out.rows
                 /\ uploads_dir' = out.dir
                 /\ worker' = out.worker
                 /\ runs' = [runs EXCEPT ![worker.task_id] = out.run]
                 /\ UNCHANGED document_store
         ELSE /\ document_store' = document_store \cup
                     {Batch(worker.task_id, worker.written, worker.valid_docs)}
              /\ worker' = [worker EXCEPT
                     !.written = Min(@ + batch_size, worker.valid_docs)]
              /\ UNCHANGED <<tasks, uploads_dir, runs>>
    /\ UNCHANGED <<processing_queue, requests, clock, cancelled>>
    /\ UNCHANGED <<splitVars, windowVars, cleanVars, pdfVars, restVars>>

\* 451-470: after the last sleep the temporary files are removed (a missing
\* file raises, which is swallowed) and the task is completed.
WorkerComplete ==
    /\ worker.at = "sleep"
    /\ worker.written >= worker.valid_docs
    /\ uploads_dir' = IF worker.file_path \in DOMAIN uploads_dir
                      THEN Remove(uploads_dir,
                                  {worker.file_path, MetaPath(worker.file_path)})
                      ELSE uploads_dir
    /\ tasks' = complete_task(tasks, worker.task_id, clock)
    /\ runs' = [runs EXCEPT ![worker.task_id].ended = TRUE]
    /\ worker' = WorkerWaiting
    /\ UNCHANGED <<processing_queue, requests, document_store, clock, cancelled>>
    /\ UNCHANGED <<splitVars, windowVars, cleanVars, pdfVars, restVars>>

\* ---- upload_async (52-160), one file of the request ----
\* 82-100: the task is created and the request awaits file.read().
UploadBegin ==
    /\ Cardinality(DOMAIN tasks) < MaxTasks
    /\ \E file \in UploadedFiles :
         LET task_id == Cardinality(DOMAIN tasks) + 1
         IN /\ tasks' = update_task_status(create_task(tasks, task_id, clock),
                                           task_id, UPLOADING, clock)
            /\ requests' = requests \cup {[task_id |-> task_id, file |-> file]}
    /\ UNCHANGED <<uploads_dir, processing_queue, worker, document_store, clock, runs,
                   cancelled>>
    /\ UNCHANGED <<splitVars, windowVars, cleanVars, pdfVars, restVars>>

\* 100-151: the file and its .meta.json are written, the task is queued; or
\* reading the upload or writing the .meta.json raises and the task fails.
UploadEnd ==
    \E r \in requests, outcome \in {"ok", "read raises", "meta raises"} :
        LET file_path == FilePath(r.task_id, r.file.ext)
            saved == [p \in DOMAIN uploads_dir \cup {file_path} |->
                         IF p = file_path THEN r.file ELSE uploads_dir[p]]
            with_meta == [p \in DOMAIN saved \cup {MetaPath(file_path)} |->
                             IF p = MetaPath(file_path)
                             THEN [task_id |-> r.task_id, file_path |-> file_path]
                             ELSE saved[p]]
            with_path == set_task_file_path(tasks, r.task_id, file_path, clock)
        IN /\ requests' = requests \ {r}
           /\ IF outcome = "ok"
              THEN /\ uploads_dir' = with_meta
                   /\ tasks' = update_task_status(with_path, r.task_id, QUEUED, clock)
                   /\ processing_queue' = Append(processing_queue, r.task_id)
              ELSE IF outcome = "read raises"
              THEN /\ tasks' = fail_task(tasks, r.task_id, "upload failed", clock)
                   /\ UNCHANGED <<uploads_dir, processing_queue>>
              ELSE /\ uploads_dir' = saved
                   /\ tasks' = fail_task(with_path, r.task_id, "upload failed", clock)
                   /\ UNCHANGED processing_queue
           /\ UNCHANGED <<worker, document_store, clock, runs, cancelled>>
           /\ UNCHANGED <<splitVars, windowVars, cleanVars, pdfVars, restVars>>

\* The task ids a cancel request may name: those created and one more.
TaskIds == 1..(MaxTasks + 1)

\* A cancel_task that cancels a task whatever its status is.
cancel_task_AnyStatus(s, task_id, now) ==
    IF task_id \notin DOMAIN s.rows
    THEN [rows |-> s.rows, dir |-> s.dir, result |-> FALSE]
    ELSE [rows |-> fail_task(s.rows, task_id, "cancelled on user request", now),
          dir |-> remove_task_files(s.dir, s.rows[task_id].file_path),
          result |-> TRUE]

\* cancel_task (task_manager_sqlite.py 437-485): the rows and the files after
\* the call, and what it returns.
cancel_task(s, task_id, now) ==
    IF task_id \notin DOMAIN s.rows
    THEN [rows |-> s.rows, dir |-> s.dir, result |-> FALSE]
    ELSE IF s.rows[task_id].status \notin {UPLOADING, QUEUED}
    THEN [rows |-> s.rows, dir |-> s.dir, result |-> FALSE]
    ELSE [rows |-> fail_task(s.rows, task_id, "cancelled on user request", now),
          dir |-> remove_task_files(s.dir, s.rows[task_id].file_path),
          result |-> TRUE]

\* POST /cancel-task/{task_id} (background_upload.py 222-235): an unknown
\* task id is answered 404, a refusal 400; neither changes anything.
CancelTask ==
    \E task_id \in TaskIds :
        \E out \in {cancel_task(Current, task_id, clock)} :
            /\ tasks' = out.rows
            /\ uploads_dir' = out.dir
            /\ cancelled' = IF out.result THEN cancelled \cup {task_id} ELSE cancelled
            /\ UNCHANGED <<processing_queue, requests, worker, document_store, clock, runs>>
            /\ UNCHANGED <<splitVars, windowVars, cleanVars, pdfVars, restVars>>

\* TaskManager.dismiss_task (177-188): the row is marked whatever its status.
dismiss_task(rows, task_id, now) ==
    [t \in DOMAIN rows |->
        IF t = task_id THEN [rows[t] EXCEPT !.is_dismissed = TRUE, !.updated_at = now]
        ELSE rows[t]]

\* TaskManager.dismiss_completed_tasks (190-218), for the one site followed.
dismiss_completed_tasks(rows, now) ==
    [t \in DOMAIN rows |->
        IF rows[t].status \in {COMPLETED, FAILED} /\ ~rows[t].is_dismissed
        THEN [rows[t] EXCEPT !.is_dismissed = TRUE, !.updated_at = now]
        ELSE rows[t]]

RECURSIVE RemoveAll(_, _)
RemoveAll(dir, paths) ==
    IF paths = {} THEN dir
    ELSE LET p == CHOOSE q \in paths : TRUE
         IN RemoveAll(remove_task_files(dir, p), paths \ {p})

\* A stale check that takes a task updated exactly 10 minutes ago as well.
IsStale_AtTenMinutes(row, now) ==
    /\ row.status \in {UPLOADING, QUEUED, PROCESSING}
    /\ row.updated_at <= now - stale_minutes
    /\ ~row.is_dismissed

\* The WHERE clause of _cleanup_stale_tasks (323-333).
IsStale(row, now) ==
    /\ row.status \in {UPLOADING, QUEUED, PROCESSING}
    /\ row.updated_at < now - stale_minutes
    /\ ~row.is_dismissed

\* _cleanup_stale_tasks (316-374): the rows and the files after the call.
cleanup_stale_tasks(s, now) ==
    LET stale_tasks == {t \in DOMAIN s.rows : IsStale(s.rows[t], now)}
    IN [rows |-> [t \in DOMAIN s.rows |->
                     IF t \in stale_tasks
                     THEN [s.rows[t] EXCEPT !.status = FAILED,
                                            !.error = "no progress for 10 minutes",
                                            !.updated_at = now]
                     ELSE s.rows[t]],
        dir |-> RemoveAll(s.dir, {s.rows[t].file_path : t \in stale_tasks})]

\* POST /dismiss-task/{task_id} (background_upload.py 176-201): refused
\* unless the task is completed or failed; the files of a failed task go.
DismissTask ==
    \E task_id \in DOMAIN tasks :
        /\ tasks[task_id].status \in {COMPLETED, FAILED}
        /\ tasks' = dismiss_task(tasks, task_id, clock)
        /\ uploads_dir' = IF tasks[task_id].status = FAILED
                          THEN remove_upload_files(uploads_dir, tasks[task_id].file_path)
                          ELSE uploads_dir
        /\ UNCHANGED <<processing_queue, requests, worker, document_store, clock, runs,
                       cancelled>>
        /\ UNCHANGED <<splitVars, windowVars, cleanVars, pdfVars, restVars>>

\* The WebSocket message "dismiss_task" (websocket_handler.py 107-117): the
\* task manager's dismiss_task is called for the id of the message, and
\* get_tasks_by_site then runs the stale check (task_manager_sqlite.py 225).
SocketDismissTask ==
    \E task_id \in TaskIds :
        \E out \in {cleanup_stale_tasks(
                        [rows |-> dismiss_task(tasks, task_id, clock), dir |-> uploads_dir],
                        clock)} :
            /\ tasks' = out.rows
            /\ uploads_dir' = out.dir
            /\ UNCHANGED <<processing_queue, requests, worker, document_store, clock, runs,
                           cancelled>>
            /\ UNCHANGED <<splitVars, windowVars, cleanVars, pdfVars, restVars>>

\* POST /dismiss-completed-tasks (background_upload.py 203-220) and the
\* WebSocket message "dismiss_all_completed" (websocket_handler.py 119-127):
\* dismiss_completed_tasks, then get_tasks_by_site with its stale check.
DismissCompletedTasks ==
    \E out \in {cleanup_stale_tasks(
                    [rows |-> dismiss_completed_tasks(tasks, clock), dir |-> uploads_dir],
                    clock)} :
        /\ tasks' = out.rows
        /\ uploads_dir' = out.dir
        /\ UNCHANGED <<processing_queue, requests, worker, document_store, clock, runs,
                       cancelled>>
        /\ UNCHANGED <<splitVars, windowVars, cleanVars, pdfVars, restVars>>

\* _check_stale_tasks (419-426) runs _cleanup_stale_tasks every minute, and
\* GET /tasks runs it through get_tasks_by_site (225).
StaleCheck ==
    \E out \in {cleanup_stale_tasks(Current, clock)} :
        /\ out.rows # tasks
        /\ tasks' = out.rows
        /\ uploads_dir' = out.dir
        /\ UNCHANGED <<processing_queue, requests, worker, document_store, clock, runs,
                       cancelled>>
        /\ UNCHANGED <<splitVars, windowVars, cleanVars, pdfVars, restVars>>

\* Time passes.
Tick ==
    /\ clock < MaxClock
    /\ clock' = clock + TickMinutes
    /\ UNCHANGED <<tasks, uploads_dir, processing_queue, requests, worker,
                   document_store, runs, cancelled>>
    /\ UNCHANGED <<splitVars, windowVars, cleanVars, pdfVars, restVars>>

(***************************************************************************)
(* Text (Python str).  A string is the sequence of its characters, and a   *)
(* character is a token: an ASCII character stands for itself, "\n" and    *)
(* "\t" for newline and tab, "->" for the arrow U+2192, and "k:xxx" for    *)
(* the Hangul syllable romanised xxx ("k:pyo" is U+D45C).  None is a value *)
(* that is no string.                                                      *)
(***************************************************************************)
None == <<"None">>

Whitespace == {" ", "\n", "\t"}                     \* str.isspace
DigitChars == <<"0", "1", "2", "3", "4", "5", "6", "7", "8", "9">>
Digits == {DigitChars[i] : i \in 1..10}             \* str.isdigit, \d
UpperLetters ==
    {"A", "B", "C", "D", "E", "F", "G", "H", "I", "J", "K", "L", "M",
     "N", "O", "P", "Q", "R", "S", "T", "U", "V", "W", "X", "Y", "Z"}   \* [A-Z]
LowerLetters ==
    {"a", "b", "c", "d", "e", "f", "g", "h", "i", "j", "k", "l", "m",
     "n", "o", "p", "q", "r", "s", "t", "u", "v", "w", "x", "y", "z"}   \* [a-z]
\* The Hangul syllables (U+AC00 to U+D7A3) that the strings here are made of.
Hangul ==
    { "k:aek", "k:beon", "k:bi", "k:bun", "k:chae", "k:chi", "k:dan", "k:deo",
      "k:deu", "k:gaps", "k:geom", "k:geum", "k:gi", "k:go", "k:gu", "k:gwan",
      "k:gye", "k:ha", "k:han", "k:hang", "k:he", "k:ho", "k:i", "k:jak",
      "k:je", "k:jeom", "k:ji", "k:jja", "k:jo", "k:ju", "k:jun", "k:keol",
      "k:kkeut2", "k:ko", "k:mok", "k:nae", "k:nal", "k:neol", "k:pa", "k:pe",
      "k:pyo", "k:re", "k:reom", "k:reum", "k:ryang", "k:ryeon", "k:sang",
      "k:si", "k:sok", "k:su", "k:wi", "k:won", "k:yeol", "k:yong" }

\* str(n) for a small natural number.
RECURSIVE Str(_)
Str(n) == IF n < 10 THEN <<DigitChars[n + 1]>>
          ELSE Str(n \div 10) \o <<DigitChars[(n % 10) + 1]>>

\* s.lstrip(), s.rstrip(), s.strip()
RECURSIVE lstrip(_)
lstrip(s) == IF s # <<>> /\ Head(s) \in Whitespace THEN lstrip(Tail(s)) ELSE s
RECURSIVE rstrip(_)
rstrip(s) == IF s # <<>> /\ Last(s) \in Whitespace THEN rstrip(Front(s)) ELSE s
strip(s) == rstrip(lstrip(s))

\* s.split(c) for a character c
RECURSIVE split_on(_, _)
split_on(s, c) ==
    IF \A i \in 1..Len(s) : s[i] # c THEN <<s>>
    ELSE LET i == CHOOSE k \in 1..Len(s) :
                      s[k] = c /\ \A j \in 1..(k - 1) : s[j] # c
         IN <<SubSeq(s, 1, i - 1)>> \o split_on(SubSeq(s, i + 1, Len(s)), c)

\* s.split(): the words between runs of whitespace
RECURSIVE split_words(_)
split_words(s) ==
    LET t == lstrip(s)
    IN IF t = <<>> THEN <<>>
       ELSE LET n == CHOOSE k \in 1..(Len(t) + 1) :
                        /\ k = Len(t) + 1 \/ t[k] \in Whitespace
                        /\ \A j \in 1..(k - 1) : t[j] \notin Whitespace
            IN <<SubSeq(t, 1, n - 1)>> \o split_words(SubSeq(t, n, Len(t)))

\* sep.join(parts)
RECURSIVE join(_, _)
join(sep, parts) ==
    IF parts = <<>> THEN <<>>
    ELSE IF Len(parts) = 1 THEN parts[1]
    ELSE parts[1] \o sep \o join(sep, Tail(parts))

\* sub in s, s.startswith(p), s.endswith(p)
Contains(sub, s) ==
    \E i \in 0..(Len(s) - Len(sub)) : SubSeq(s, i + 1, i + Len(sub)) = sub
StartsWith(s, p) == Len(p) <= Len(s) /\ SubSeq(s, 1, Len(p)) = p
EndsWith(s, p) == Len(p) <= Len(s) /\ SubSeq(s, Len(s) - Len(p) + 1, Len(s)) = p

\* s.replace(sub, ""), for a non-empty sub
RECURSIVE remove_all(_, _)
remove_all(s, sub) ==
    IF s = <<>> THEN <<>>
    ELSE IF StartsWith(s, sub) THEN remove_all(SubSeq(s, Len(sub) + 1, Len(s)), sub)
    ELSE <<Head(s)>> \o remove_all(Tail(s), sub)

\* clean_whitespace (table_formatter.py 693-749).  Of the characters in
\* unicode_spaces the tab is the one a string can hold here.
clean_whitespace(text, preserve_newlines) ==
    IF text = None \/ text = <<>> THEN <<>>
    ELSE LET spaced == [i \in 1..Len(text) |->
                            IF text[i] = "\t" THEN " " ELSE text[i]]
         IN IF preserve_newlines
            THEN LET lines == split_on(spaced, "\n")
                 IN join(<<"\n">>,
                         [i \in 1..Len(lines) |-> join(<<" ">>, split_words(lines[i]))])
            ELSE strip(join(<<" ">>, split_words(spaced)))

(***************************************************************************)
(* Exact fractions, for the averages and ratios the code computes in       *)
(* floating point.  A fraction is [n, d] with d > 0, in lowest terms.      *)
(***************************************************************************)
RECURSIVE GCD(_, _)
GCD(a, b) == IF b = 0 THEN a ELSE GCD(b, a % b)

Abs(x) == IF x < 0 THEN -x ELSE x

Frac(n, d) ==
    LET g == GCD(Abs(n), d)
    IN [n |-> n \div g, d |-> d \div g]

FracAdd(a, b) == Frac(a.n * b.d + b.n * a.d, a.d * b.d)
FracSub(a, b) == Frac(a.n * b.d - b.n * a.d, a.d * b.d)
FracLess(a, b) == a.n * b.d < b.n * a.d

RECURSIVE FracSum(_)
FracSum(fs) == IF fs = <<>> THEN Frac(0, 1) ELSE FracAdd(Head(fs), FracSum(Tail(fs)))

\* sum(fs) / len(fs)
FracMean(fs) == LET s == FracSum(fs) IN Frac(s.n, s.d * Len(fs))

\* "for i in range(n): for j in range(i + 1, n)": the pairs, in that order.
RECURSIVE PairsFrom(_, _, _)
PairsFrom(i, j, n) ==
    IF i >= n THEN <<>>
    ELSE IF j > n THEN PairsFrom(i + 1, i + 2, n)
    ELSE <<<<i, j>>>> \o PairsFrom(i, j + 1, n)

(***************************************************************************)
(* Tables as text: table_formatter.py.  A table is a list of rows, a row a *)
(* list of cells, a cell a string or None.                                 *)
(***************************************************************************)
\* is_header_row: header_keywords (793-799)
header_keywords ==
    { <<"k:beon", "k:ho">>, <<"k:i", "k:reum">>, <<"k:je", "k:mok">>,
      <<"k:gu", "k:bun">>, <<"k:hang", "k:mok">>, <<"k:nae", "k:yong">>,
      <<"k:bi", "k:go">>, <<"N", "o", ".">>, <<"N", "a", "m", "e">>,
      <<"T", "i", "t", "l", "e">>, <<"T", "y", "p", "e">>,
      <<"I", "t", "e", "m">>, <<"C", "o", "n", "t", "e", "n", "t">>,
      <<"R", "e", "m", "a", "r", "k">>, <<"k:nal", "k:jja">>,
      <<"D", "a", "t", "e">>, <<"k:geum", "k:aek">>,
      <<"A", "m", "o", "u", "n", "t">>, <<"k:su", "k:ryang">>,
      <<"Q", "u", "a", "n", "t", "i", "t", "y">>, <<"k:gwan", "k:ryeon">>,
      <<"k:jo", "k:hang">>, <<"k:ha", "k:han", "k:chi">>,
      <<"k:pyo", "k:jun", "k:chi">>, <<"k:sang", "k:han", "k:chi">>,
      <<"k:jeom", "k:geom">>, <<"k:gaps">>, <<"V", "a", "l", "u", "e">>,
      <<"k:dan", "k:wi">>, <<"U", "n", "i", "t">>, <<"k:gi", "k:jun">>,
      <<"S", "t", "a", "n", "d", "a", "r", "d">> }

\* is_numeric: units (1036), in the order they are removed
units ==
    << <<"P", "P", "S">>, <<"p", "p", "s">>, <<"u:33B2">>, <<"u:33BE">>,
      <<"u:3392">>, <<"M", "H", "z">>, <<"k", "W">>, <<"%">>, <<"k:won">>,
      <<"$">> >>

\* has_special_chars: special_chars (854)
special_chars ==
    { ":", "-", "/", "(", ")", "[", "]", "u:2022", "u:00B7", "u:25AA",
      "u:25BA" }

\* analyze_table_type: the checkpoint header names (108)
checkpoint_headers ==
    { <<"k:ha", "k:han", "k:chi">>, <<"k:pyo", "k:jun", "k:chi">>,
      <<"k:sang", "k:han", "k:chi">> }

\* float(s) succeeds: s, stripped, is a decimal literal, "inf", "infinity" or
\* "nan" (in any case), with an optional sign.
DigitPart(s) ==
    /\ s # <<>>
    /\ s[1] \in Digits /\ s[Len(s)] \in Digits
    /\ \A i \in 1..Len(s) : s[i] \in Digits \cup {"_"}
    /\ \A i \in 1..(Len(s) - 1) : ~(s[i] = "_" /\ s[i + 1] = "_")

Decimal(s) ==
    \/ DigitPart(s)
    \/ \E i \in 1..Len(s) :
         /\ s[i] = "."
         /\ LET whole == SubSeq(s, 1, i - 1)
                fraction == SubSeq(s, i + 1, Len(s))
            IN /\ whole = <<>> \/ DigitPart(whole)
               /\ fraction = <<>> \/ DigitPart(fraction)
               /\ whole # <<>> \/ fraction # <<>>

Unsigned(s) == IF s # <<>> /\ s[1] \in {"+", "-"} THEN Tail(s) ELSE s

SpellsWord(s, lower, upper) ==
    /\ Len(s) = Len(lower)
    /\ \A i \in 1..Len(s) : s[i] \in {lower[i], upper[i]}

IsFloatLiteral(s) ==
    LET u == Unsigned(strip(s))
    IN \/ Decimal(u)
       \/ \E i \in 2..(Len(u) - 1) :
            /\ u[i] \in {"e", "E"}
            /\ Decimal(SubSeq(u, 1, i - 1))
            /\ DigitPart(Unsigned(SubSeq(u, i + 1, Len(u))))
       \/ SpellsWord(u, <<"i", "n", "f">>, <<"I", "N", "F">>)
       \/ SpellsWord(u, <<"n", "a", "n">>, <<"N", "A", "N">>)
       \/ SpellsWord(u, <<"i", "n", "f", "i", "n", "i", "t", "y">>,
                        <<"I", "N", "F", "I", "N", "I", "T", "Y">>)

RECURSIVE RemoveUnits(_, _)
RemoveUnits(s, k) ==
    IF k > Len(units) THEN s ELSE RemoveUnits(remove_all(s, units[k]), k + 1)

\* is_numeric (1025-1051)
is_numeric(text) ==
    IF text = <<>> THEN FALSE
    ELSE LET cleaned == RemoveUnits(
                            strip(remove_all(remove_all(text, <<",">>), <<" ">>)), 1)
         IN IF cleaned \in {<<"-">>, <<"u:2014">>, <<"u:2013">>} THEN FALSE
            ELSE IF cleaned # <<>> /\ cleaned[1] \in {"u:2264", "u:2265"}
                 THEN IsFloatLiteral(Tail(cleaned))
            ELSE IsFloatLiteral(cleaned)

\* "not cell or not str(cell).strip()"
IsBlank(cell) == cell = None \/ strip(cell) = <<>>

\* preprocess_table_data (752-781): None becomes "", a string stays as it is.
preprocess_table_data(data) ==
    [r \in 1..Len(data) |->
        [c \in 1..Len(data[r]) |->
            IF data[r][c] = None THEN <<>> ELSE data[r][c]]]

\* is_header_row (784-813)
is_header_row(row) ==
    IF row = <<>> THEN FALSE
    ELSE IF \E c \in 1..Len(row) :
               /\ row[c] # <<>>
               /\ \E keyword \in header_keywords : Contains(keyword, row[c])
         THEN TRUE
    ELSE LET non_empty_count == Cardinality({c \in 1..Len(row) : ~IsBlank(row[c])})
             total_length == Sum([c \in 1..Len(row) |-> Len(row[c])])
         IN /\ 10 * non_empty_count >= 7 * Len(row)
            /\ total_length < 20 * non_empty_count

\* analyze_header_with_similarity: the five patterns of a row (831-885)
get_cell_pattern(row) ==
    [c \in 1..Len(row) |->
        IF IsBlank(row[c]) THEN "empty"
        ELSE IF Contains(<<"\n">>, row[c]) THEN "multiline"
        ELSE IF is_numeric(strip(row[c])) THEN "numeric"
        ELSE "text"]

get_length_pattern(row) == [c \in 1..Len(row) |-> Len(strip(row[c]))]

get_empty_positions(row) == {c \in 1..Len(row) : IsBlank(row[c])}

has_special_chars(text) == \E i \in 1..Len(text) : text[i] \in special_chars

get_special_char_pattern(row) == [c \in 1..Len(row) |-> has_special_chars(row[c])]

get_char_type_pattern(row) ==
    [c \in 1..Len(row) |->
        IF IsBlank(row[c]) THEN "empty"
        ELSE LET text == strip(row[c])
                 has_korean == \E i \in 1..Len(text) : text[i] \in Hangul
                 has_english == \E i \in 1..Len(text) :
                                    text[i] \in UpperLetters \cup LowerLetters
                 has_number == \E i \in 1..Len(text) : text[i] \in Digits
             IN IF has_korean /\ ~has_english /\ ~has_number THEN "korean"
                ELSE IF has_english /\ ~has_korean /\ ~has_number THEN "english"
                ELSE IF has_number /\ ~has_korean /\ ~has_english THEN "number"
                ELSE IF has_korean /\ (has_english \/ has_number) THEN "korean_mixed"
                ELSE IF has_english /\ has_number /\ ~has_korean THEN "english_number"
                ELSE "mixed"]

\* matches / len(pattern1), 0 when the lengths differ
PatternSimilarity(pattern1, pattern2) ==
    IF Len(pattern1) # Len(pattern2) THEN Frac(0, 1)
    ELSE Frac(Cardinality({c \in 1..Len(pattern1) : pattern1[c] = pattern2[c]}),
              Len(pattern1))

\* calculate_row_similarity (965-1022)
calculate_row_similarity(row1, row2, metric) ==
    CASE metric = "type" ->
            PatternSimilarity(get_cell_pattern(row1), get_cell_pattern(row2))
      [] metric = "length" ->
            LET lengths1 == get_length_pattern(row1)
                lengths2 == get_length_pattern(row2)
            IN IF Len(lengths1) # Len(lengths2) THEN Frac(0, 1)
               ELSE FracMean([c \in 1..Len(lengths1) |->
                        LET max_len == Max(Max(lengths1[c], lengths2[c]), 1)
                        IN Frac(max_len - Abs(lengths1[c] - lengths2[c]), max_len)])
      [] metric = "empty" ->
            LET empty1 == get_empty_positions(row1)
                empty2 == get_empty_positions(row2)
            IN IF empty1 = {} /\ empty2 = {} THEN Frac(1, 1)
               ELSE IF empty1 = {} \/ empty2 = {} THEN Frac(0, 1)
               ELSE Frac(Cardinality(empty1 \cap empty2),
                         Cardinality(empty1 \cup empty2))
      [] metric = "special" ->
            PatternSimilarity(get_special_char_pattern(row1),
                              get_special_char_pattern(row2))
      [] metric = "char_type" ->
            PatternSimilarity(get_char_type_pattern(row1),
                              get_char_type_pattern(row2))

metrics == {"type", "length", "empty", "special", "char_type"}

\* inter_sim - first_sim for one metric (902-936)
SimilarityDifference(data, metric) ==
    LET first_row == data[1]
        other_rows == Tail(data)
        pairs == PairsFrom(1, 2, Len(other_rows))
        inter_sim ==
            IF Len(other_rows) > 1
            THEN FracMean([k \in 1..Len(pairs) |->
                     calculate_row_similarity(other_rows[pairs[k][1]],
                                              other_rows[pairs[k][2]], metric)])
            ELSE Frac(1, 1)
        first_sim ==
            FracMean([k \in 1..Len(other_rows) |->
                calculate_row_similarity(first_row, other_rows[k], metric)])
    IN FracSub(inter_sim, first_sim)

\* analyze_header_with_similarity (816-962).  The largest difference is
\* compared with 0.3 in floating point; when it is 3/10 exactly the rounding of
\* the sums decides, and rounds_above tells which way.
analyze_header_with_similarity(data, rounds_above) ==
    IF Len(data) < 3 THEN (IF data = <<>> THEN FALSE ELSE is_header_row(data[1]))
    ELSE LET differences == {SimilarityDifference(data, metric) : metric \in metrics}
             max_diff == CHOOSE d \in differences :
                             \A e \in differences : ~FracLess(d, e)
             is_header == \/ FracLess(Frac(3, 10), max_diff)
                          \/ max_diff = Frac(3, 10) /\ rounds_above
         IN is_header \/ is_header_row(data[1])

\* analyze_table_type (100-136).  The second test of has_checkpoint_headers
\* (133) is never reached, so "simple_multicolumn" is never returned.
analyze_table_type(headers, data_rows) ==
    IF data_rows = <<>> THEN "empty"
    ELSE IF \E c \in 1..Len(headers) :
               \E name \in checkpoint_headers : Contains(name, headers[c])
         THEN "complex_hierarchical"
    ELSE "simple"

(***************************************************************************)
(* extract_symbol_pattern (table_analyzer.py 641-918): the kind of marker  *)
(* a line begins with.  The patterns are tried in the order of the list;   *)
(* a kind is named as in the source, character by character.               *)
(***************************************************************************)
NoSymbol == ""      \* None

\* The patterns "^(c)\s*" for a single character c: c is its own kind.
single_symbols ==
    { "->", "u:25B6", "u:25B7", "u:25C6", "u:25C7", "u:25B2", "u:25B3",
      "u:25BC", "u:25BD", "u:25C0", "u:25C1", "u:21D2", "u:21E8", "u:279C",
      "u:27A4", "u:27F6", "u:25A0", "u:25A1", "u:25AA", "u:25AB", "u:25FC",
      "u:25FB", "u:25A3", "u:25A4", "u:25CF", "u:25CB", "u:2022", "u:25E6",
      "u:2219", "u:00B7", "u:2981", "u:25C9", "u:25CE", "u:2299", "u:2013",
      "u:2014", "u:2015", "_", "u:FF3F", "*", "u:2605", "u:2606", "u:2726",
      "u:2727", "u:272A", "u:272B", "u:2713", "u:2714", "u:2611", "u:2610",
      "u:2717", "u:2718", "u:2612", "+", "u:00D7", "u:2715", "u:2716", ">",
      "<", "u:203B", "u:2666", "u:2662", "u:2660", "u:2663", "u:2665",
      "u:2661", "u:00A7", "u:00B6", "u:2020", "u:2021", "u:2016", "u:00A4",
      "u:25C8", "u:25CA", "u:229A", "u:229B", "u:2295", "u:2296", "u:2297",
      "u:2298", "u:2460", "u:2461", "u:2462", "u:2463", "u:2464", "u:2465",
      "u:2466", "u:2467", "u:2468", "u:2469", "u:246A", "u:246B", "u:246C",
      "u:246D", "u:246E", "u:246F", "u:2470", "u:2471", "u:2472", "u:2473",
      "u:24D0", "u:24D1", "u:24D2", "u:24D3", "u:24B6", "u:24B7", "u:24B8",
      "u:24B9", "u:2474", "u:2475", "u:2476", "u:2477", "u:2478", "#", "@",
      "&", "%", "$", "u:FF01", "u:FF1F", "u:FF1A", "u:FF1B", "u:3001",
      "u:3002", "u:FF0C", "u:FF0E", "u:30FB", "u:2026", "u:2025" }

\* The patterns "^(<open>[^<close>]+<close>)\s*".
bracket_pairs ==
    { <<"{", "}">>, <<"[", "]">>, <<"(", ")">>, <<"u:300A", "u:300B">>,
      <<"u:3008", "u:3009">>, <<"u:3010", "u:3011">>, <<"u:3014", "u:3015">>,
      <<"u:300C", "u:300D">>, <<"u:300E", "u:300F">> }

\* [U+3131-U+314E]
Jamo ==
    { "u:3131", "u:3132", "u:3133", "u:3134", "u:3135", "u:3136", "u:3137",
      "u:3138", "u:3139", "u:313A", "u:313B", "u:313C", "u:313D", "u:313E",
      "u:313F", "u:3140", "u:3141", "u:3142", "u:3143", "u:3144", "u:3145",
      "u:3146", "u:3147", "u:3148", "u:3149", "u:314A", "u:314B", "u:314C",
      "u:314D", "u:314E" }

roman_lower == {"i", "v", "x", "l", "c", "d", "m"}
roman_upper == {"I", "V", "X", "L", "C", "D", "M"}

\* The number of characters of s from position i on that are in S.
RECURSIVE RunLength(_, _, _)
RunLength(s, i, S) ==
    IF i <= Len(s) /\ s[i] \in S THEN 1 + RunLength(s, i + 1, S) ELSE 0

\* The character of s at position i, "" past the end.
At(s, i) == IF i >= 1 /\ i <= Len(s) THEN s[i] ELSE ""

\* "^(<letters>+)\s*(\d+)\s*$" when whole, "^(<letters>+)\s*(\d+)\s+" otherwise.
WordNumber(line, letters, whole) ==
    LET a == RunLength(line, 1, letters)
        b == RunLength(line, a + 1, Whitespace)
        c == RunLength(line, a + b + 1, Digits)
        d == RunLength(line, a + b + c + 1, Whitespace)
    IN /\ a >= 1
       /\ c >= 1
       /\ IF whole THEN a + b + c + d = Len(line) ELSE d >= 1

\* "^<open>(<inner>+)<close>" when many, "^<open>(<inner>)<close>" otherwise.
Enclosed(line, open, inner, close, many) ==
    LET n == RunLength(line, 2, inner)
    IN /\ At(line, 1) = open
       /\ n >= 1
       /\ IF many THEN At(line, n + 2) = close ELSE At(line, 3) = close

\* "^(<inner>+)<close>" when many, "^(<inner>)<close>" otherwise.
Followed(line, inner, close, many) ==
    LET n == RunLength(line, 1, inner)
    IN /\ n >= 1
       /\ IF many THEN At(line, n + 1) = close ELSE At(line, 2) = close

extract_symbol_pattern(raw) ==
    LET line == strip([i \in 1..Len(raw) |-> IF raw[i] = "\t" THEN " " ELSE raw[i]])
        digits == RunLength(line, 1, Digits)
        next == At(line, digits + 1)
    IN IF WordNumber(line, UpperLetters, TRUE) THEN "ALPHA_NUM"
       ELSE IF WordNumber(line, LowerLetters, TRUE) THEN "alpha_num"
       ELSE IF WordNumber(line, UpperLetters \cup LowerLetters, TRUE) THEN "Alpha_Num"
       ELSE IF WordNumber(line, Hangul, TRUE) THEN "k:hank:geul_k:susk:ja"
       ELSE IF WordNumber(line, UpperLetters, FALSE) THEN "ALPHA_NUM_PREFIX"
       ELSE IF WordNumber(line, LowerLetters, FALSE) THEN "alpha_num_prefix"
       ELSE IF WordNumber(line, Hangul, FALSE) THEN "k:hank:geul_k:susk:ja_PREFIX"
       ELSE IF At(line, 1) \in single_symbols THEN line[1]
       ELSE IF At(line, 1) = "-" /\ At(line, 2) \in Whitespace THEN "-"
       ELSE IF digits >= 1 /\ next = ")" THEN "N)"
       ELSE IF digits >= 1 /\ next = "." THEN "N."
       ELSE IF digits >= 1 /\ next = "-" THEN "N-"
       ELSE IF Enclosed(line, "(", Digits, ")", TRUE) THEN "(N)"
       ELSE IF Enclosed(line, "[", Digits, "]", TRUE) THEN "[N]"
       ELSE IF digits >= 1 /\ next \in Whitespace THEN "N "
       ELSE IF digits >= 1 /\ next = ":" THEN "N:"
       ELSE IF digits >= 1 /\ next = "k:beon" THEN "Nk:beon"
       ELSE IF At(line, 1) = "k:je" /\ At(line, 2) \in Digits THEN "k:jeN"
       ELSE IF Followed(line, Hangul, ")", FALSE) THEN "k:ga)"
       ELSE IF Followed(line, Hangul, ".", FALSE) THEN "k:ga."
       ELSE IF Enclosed(line, "(", Hangul, ")", FALSE) THEN "(k:ga)"
       ELSE IF Enclosed(line, "[", Hangul, "]", FALSE) THEN "[k:ga]"
       ELSE IF Followed(line, Jamo, ")", FALSE) THEN "u:3131)"
       ELSE IF Followed(line, Jamo, ".", FALSE) THEN "u:3131."
       ELSE IF Followed(line, LowerLetters, ")", FALSE) THEN "a)"
       ELSE IF Followed(line, UpperLetters, ")", FALSE) THEN "A)"
       ELSE IF Followed(line, LowerLetters, ".", FALSE) THEN "a."
       ELSE IF Followed(line, UpperLetters, ".", FALSE) THEN "A."
       ELSE IF Enclosed(line, "(", LowerLetters, ")", FALSE) THEN "(a)"
       ELSE IF Enclosed(line, "(", UpperLetters, ")", FALSE) THEN "(A)"
       ELSE IF Enclosed(line, "[", LowerLetters, "]", FALSE) THEN "[a]"
       ELSE IF Enclosed(line, "[", UpperLetters, "]", FALSE) THEN "[A]"
       ELSE IF Followed(line, roman_lower, ")", TRUE) THEN "i)"
       ELSE IF Followed(line, roman_upper, ")", TRUE) THEN "I)"
       ELSE IF Followed(line, roman_lower, ".", TRUE) THEN "i."
       ELSE IF Followed(line, roman_upper, ".", TRUE) THEN "I."
       ELSE IF Enclosed(line, "(", roman_lower, ")", TRUE) THEN "(i)"
       ELSE IF Enclosed(line, "(", roman_upper, ")", TRUE) THEN "(I)"
       ELSE IF \E pair \in bracket_pairs :
                  /\ At(line, 1) = pair[1]
                  /\ \E k \in 3..Len(line) :
                        /\ line[k] = pair[2]
                        /\ \A j \in 2..(k - 1) : line[j] # pair[2]
            THEN LET pair == CHOOSE p \in bracket_pairs : At(line, 1) = p[1]
                 IN pair[1] \o pair[2]
       ELSE NoSymbol

(***************************************************************************)
(* Header/footer detection: HeaderFooterDetector (pdf_splitter.py 16-462), *)
(* auto_detect_margins (465-472) and its use at 483-490.  A page is its    *)
(* height and its lines of text from the top down; a line is its text and  *)
(* the top of its characters, which all sit at the same height, so avg_y   *)
(* is y_start.  Lengths are in points, ratios are exact fractions.         *)
(***************************************************************************)
MaxDetectPages == 3     \* pages of the PDF
MaxPageLines == 2       \* lines of a page
page_height == 100      \* points
line_height == 10       \* y_end - y_start of a line

Report1 == <<"R", "e", "p", "o", "r", "t", "1">>
Report2 == <<"R", "e", "p", "o", "r", "t", "2">>
Summary == <<"S", "u", "m", "m", "a", "r", "y">>
Private == <<"P", "r", "i", "v", "a", "t", "e">>
Company == <<"C", "o", "m", "p", "a", "n", "y">>

\* The lines a page may hold: one near the top, one near the bottom.  One
\* page has a media box of height 0.
TopLines ==
    { [text |-> t, y_start |-> y, y_end |-> y + line_height] :
        t \in {Report1, Report2, Summary}, y \in {2, 6} }
BottomLines ==
    { [text |-> t, y_start |-> 86, y_end |-> 86 + line_height] :
        t \in {Private, Company} }

DetectPages ==
    LET linesOf == {<<>>} \cup { <<l>> : l \in TopLines \cup BottomLines }
                          \cup { <<a, b>> : a \in TopLines, b \in BottomLines }
    IN { [height |-> page_height, lines |-> ls] :
            ls \in { q \in linesOf : Len(q) <= MaxPageLines } }
       \cup { [height |-> 0,
               lines |-> <<[text |-> Report1, y_start |-> 2, y_end |-> 2 + line_height]>>] }

\* str.lower() of a character
upper_case == <<"A", "B", "C", "D", "E", "F", "G", "H", "I", "J", "K", "L", "M",
                "N", "O", "P", "Q", "R", "S", "T", "U", "V", "W", "X", "Y", "Z">>
lower_case == <<"a", "b", "c", "d", "e", "f", "g", "h", "i", "j", "k", "l", "m",
                "n", "o", "p", "q", "r", "s", "t", "u", "v", "w", "x", "y", "z">>
lower(text) ==
    [i \in 1..Len(text) |->
        IF text[i] \in UpperLetters
        THEN lower_case[CHOOSE k \in 1..26 : upper_case[k] = text[i]]
        ELSE text[i]]

\* _levenshtein_distance (253-271): the edit distance of s1 and s2.
Min3(a, b, c) == Min(a, Min(b, c))

RECURSIVE LevRow(_, _, _, _, _)
\* current_row once its entries for s2[j..] are appended (263-268)
LevRow(c1, s2, previous_row, current_row, j) ==
    IF j > Len(s2) THEN current_row
    ELSE LET insertions == previous_row[j + 1] + 1
             deletions == current_row[j] + 1
             substitutions == previous_row[j] + (IF c1 # s2[j] THEN 1 ELSE 0)
         IN CHOOSE row \in
                { LevRow(c1, s2, previous_row, next, j + 1) :
                    next \in {Append(current_row,
                                     Min3(insertions, deletions, substitutions))} } : TRUE

RECURSIVE LevRows(_, _, _, _)
LevRows(s1, s2, previous_row, i) ==
    IF i > Len(s1) THEN previous_row
    ELSE CHOOSE last \in
             { LevRows(s1, s2, current_row, i + 1) :
                 current_row \in {LevRow(s1[i], s2, previous_row, <<i>>, 1)} } : TRUE

levenshtein_distance(s1, s2) ==
    LET long == IF Len(s1) < Len(s2) THEN s2 ELSE s1
        short == IF Len(s1) < Len(s2) THEN s1 ELSE s2
    IN IF Len(short) = 0 THEN Len(long)
       ELSE CHOOSE d \in
                { Last(LevRows(a, b, row, 1)) :
                    a \in {long}, b \in {short},
                    row \in {[j \in 1..(Len(short) + 1) |-> j - 1]} } : TRUE

\* _calculate_text_similarity (230-251)
calculate_text_similarity(text1, text2) ==
    IF text1 = <<>> \/ text2 = <<>> THEN Frac(0, 1)
    ELSE CHOOSE similarity \in
             { LET max_len == Max(Len(t1), Len(t2))
               IN IF t1 = t2 THEN Frac(1, 1)
                  ELSE IF max_len = 0 THEN Frac(1, 1)
                  ELSE Frac(max_len - levenshtein_distance(t1, t2), max_len) :
                 t1 \in {lower(strip(text1))}, t2 \in {lower(strip(text2))} } : TRUE

\* "similarity > 0.85"
similar(text1, text2) == FracLess(Frac(85, 100), calculate_text_similarity(text1, text2))

\* 30-68: the i-th line from the top (from the bottom) of every page that has
\* one, in the order of the pages; i counts from 1.
LinesAt(pages, i, is_header) ==
    LET having == SelectSeq([p \in 1..Len(pages) |-> p],
                            LAMBDA p : Len(pages[p].lines) >= i)
    IN [k \in 1..Len(having) |->
           LET p == having[k]
               ls == pages[p].lines
               l == IF is_header THEN ls[i] ELSE ls[Len(ls) + 1 - i]
           IN [page_num |-> p, text |-> l.text,
               y_start |-> l.y_start, y_end |-> l.y_end, avg_y |-> l.y_start]]

\* 160-176: the similarity groups of the lines of one position, in the order
\* the groups were opened; a line joins the first group whose first text it
\* resembles.
RECURSIVE text_groups(_, _)
text_groups(line_list, groups) ==
    IF line_list = <<>> THEN groups
    ELSE LET item == Head(line_list)
             hit(g) == similar(item.text, groups[g].text)
             joined ==
                 IF \A g \in 1..Len(groups) : ~hit(g)
                 THEN Append(groups, [text |-> item.text, items |-> <<item>>])
                 ELSE LET g == CHOOSE h \in 1..Len(groups) :
                                   hit(h) /\ \A o \in 1..(h - 1) : ~hit(o)
                      IN [groups EXCEPT ![g].items = Append(@, item)]
         IN CHOOSE all \in { text_groups(rest, next) :
                                rest \in {Tail(line_list)}, next \in {joined} } : TRUE

threshold_percent == 40     \* threshold = 0.4

\* "percentage >= threshold", percentage = len(items) / total_pages
ReachesThreshold_Any(count, total_pages) == count >= 1
ReachesThreshold(count, total_pages) ==
    100 * count >= threshold_percent * total_pages

\* 190-200: n * n * variance of avg_y over the n items (an integer).
ScaledVariance(items) ==
    LET n == Len(items)
        total == Sum([k \in 1..n |-> items[k].avg_y])
    IN Sum([k \in 1..n |-> (n * items[k].avg_y - total) * (n * items[k].avg_y - total)])
          \div n

\* 178-214: the candidates of all positions, in the order they are appended.
\* The score of a candidate is count / (total_pages * (1 + sqrt(variance))).
separator_candidates(lines_by_position, total_pages) ==
    Concat([ln \in 1..Len(lines_by_position) |->
        LET groups == text_groups(lines_by_position[ln], <<>>)
            kept == SelectSeq(groups,
                        LAMBDA g : ReachesThreshold(Len(g.items), total_pages))
        IN [k \in 1..Len(kept) |->
               [line_num |-> ln, text |-> kept[k].text, count |-> Len(kept[k].items),
                y_positions |-> kept[k].items,
                nn_variance |-> ScaledVariance(kept[k].items)]]])

\* x > sqrt(a) - sqrt(b) for integers x, a >= 0, b >= 0
AboveRootDifference(x, a, b) ==
    LET k == a + b - x * x
    IN IF a <= b
       THEN IF x > 0 THEN TRUE
            ELSE IF x = 0 THEN a < b
            ELSE k > 0 /\ 4 * a * b < k * k
       ELSE IF x <= 0 THEN FALSE
            ELSE k < 0 \/ 4 * a * b > k * k

\* total_score of c1 > total_score of c2: with sd = sqrt(nn_variance) / count,
\* count1 / (1 + sd1) > count2 / (1 + sd2).
ScoresAbove(c1, c2) ==
    LET a == c1.count
        b == c2.count
    IN AboveRootDifference(a * a * b - b * b * a,
                           b * b * b * b * c1.nn_variance,
                           a * a * a * a * c2.nn_variance)

\* 217-228: sort by total_score, descending, and take the first.  The sort is
\* stable, so of the candidates with the same score the first one appended
\* wins; the scores of two candidates whose positions vary are floating point
\* values that may differ in the last place although they are equal as real
\* numbers, and then either candidate may come first.  NoSeparator is None.
NoSeparator == [line_num |-> 0]

BestCandidates(cands) ==
    {k \in 1..Len(cands) : \A o \in 1..Len(cands) : ~ScoresAbove(cands[o], cands[k])}

find_separator_line(lines_by_position, total_pages) ==
    UNION { UNION { IF cands = <<>> THEN {NoSeparator}
                    ELSE IF \A k \in best : cands[k].nn_variance = 0
                    THEN {cands[CHOOSE k \in best : \A o \in best : k <= o]}
                    ELSE {cands[k] : k \in best}
                    : best \in {BestCandidates(cands)} }
            : cands \in {separator_candidates(lines_by_position, total_pages)} }

\* "max(page_height * 0.01, 10)"
dynamic_margin(height) == IF height > 1000 THEN Frac(height, 100) ELSE Frac(10, 1)

FracMin(a, b) == IF FracLess(b, a) THEN b ELSE a
max_region == Frac(3, 10)      \* "min(margin_ratio, 0.3)"

\* 273-321: the region of every page the separator line was found on.
header_region(y_info, height) ==
    LET cut_y_from_top == FracAdd(Frac(y_info.y_end, 1), dynamic_margin(height))
    IN FracMin(Frac(cut_y_from_top.n, cut_y_from_top.d * height), max_region)

footer_region(y_info, height) ==
    LET cut_y_from_top == FracSub(Frac(y_info.y_start, 1), dynamic_margin(height))
        rest == FracSub(Frac(height, 1), cut_y_from_top)
    IN FracMin(Frac(rest.n, rest.d * height), max_region)

regions_from_separator_line(pages, separator, is_header) ==
    IF separator = NoSeparator THEN <<>>
    ELSE [k \in 1..Len(separator.y_positions) |->
             LET y_info == separator.y_positions[k]
                 height == pages[y_info.page_num].height
             IN IF is_header THEN header_region(y_info, height)
                ELSE footer_region(y_info, height)]

\* 445-462: the mean of the regions, 0.0 when there is none.
margin_ratio(regions) ==
    IF regions = <<>> THEN Frac(0, 1) ELSE FracMean(regions)

(***************************************************************************)
(* clean_text_by_fixed_margins_with_tables up to the page loop (475-497),  *)
(* with the detection it calls.                                            *)
(***************************************************************************)
\* The margin ratios the caller gives: the defaults of the signature (475).
StaticRatios == { [top |-> Frac(15, 100), bottom |-> Frac(1, 10)] }

\* What may go wrong while the detector reads the PDF: nothing; an exception
\* of the PDF library where the detector has no handler (pdfplumber.open,
\* pdf.pages, page.height, page.width: 26-36); an exception while the
\* characters of page p are read, which _extract_lines_with_positions catches
\* (83-148), the page then giving no line.
DetectFaults(pages) ==
    {[kind |-> "none", page |-> 0], [kind |-> "library", page |-> 0]}
        \cup {[kind |-> "chars", page |-> p] : p \in 1..Len(pages)}

InitDetect ==
    /\ \E pages \in SeqsUpTo(DetectPages, MaxDetectPages) \ {<<>>},
          static \in StaticRatios, auto \in BOOLEAN :
         detect = [ pages |-> pages,
                    auto_detect_header_footer |-> auto,
                    top_margin_ratio |-> static.top,
                    bottom_margin_ratio |-> static.bottom,
                    caller |-> static,          \* the arguments (history)
                    fault |-> "none",           \* what went wrong (history)
                    lines_with_y |-> <<>>,      \* per page, as read (history)
                    header_regions |-> <<>>,
                    footer_regions |-> <<>>,
                    detected_top |-> Frac(0, 1),
                    detected_bottom |-> Frac(0, 1) ]
    /\ dpc = "detect"

\* 484: "if auto_detect_header_footer" is false.
SkipDetection ==
    /\ dpc = "detect"
    /\ ~detect.auto_detect_header_footer
    /\ dpc' = "pages"
    /\ UNCHANGED <<detect, coreVars, contentVars, tableVars, imageVars, restVars>>

\* detect_header_footer_regions (24-79).  A division by a page height of 0
\* (287, 306) raises ZeroDivisionError; nothing between here and the caller
\* of clean_text_by_fixed_margins_with_tables handles an exception.
DetectRegions ==
    /\ dpc = "detect"
    /\ detect.auto_detect_header_footer
    /\ \E fault \in DetectFaults(detect.pages) :
       \E seen \in {[p \in 1..Len(detect.pages) |->
                        IF fault.kind = "chars" /\ fault.page = p
                        THEN [detect.pages[p] EXCEPT !.lines = <<>>]
                        ELSE detect.pages[p]]} :
       \E header_separator_line \in
              find_separator_line([i \in 1..3 |-> LinesAt(seen, i, TRUE)], Len(seen)),
          footer_separator_line \in
              find_separator_line([i \in 1..3 |-> LinesAt(seen, i, FALSE)], Len(seen)) :
         LET divides_by_zero ==
                 \E sep \in {header_separator_line, footer_separator_line} :
                     /\ sep # NoSeparator
                     /\ \E k \in 1..Len(sep.y_positions) :
                           seen[sep.y_positions[k].page_num].height = 0
         IN IF fault.kind = "library" \/ divides_by_zero
            THEN /\ detect' = [detect EXCEPT
                                 !.fault = IF fault.kind = "library" THEN "library"
                                           ELSE "ZeroDivisionError",
                                 !.lines_with_y = seen]
                 /\ dpc' = "raised"
            ELSE /\ detect' = [detect EXCEPT
                                 !.fault = fault.kind,
                                 !.lines_with_y = seen,
                                 !.header_regions =
                                     regions_from_separator_line(seen, header_separator_line, TRUE),
                                 !.footer_regions =
                                     regions_from_separator_line(seen, footer_separator_line, FALSE)]
                 /\ dpc' = "ratios"
    /\ UNCHANGED <<coreVars, contentVars, tableVars, imageVars, restVars>>

\* get_margin_ratios after the detection (449-462), auto_detect_margins.
GetMarginRatios ==
    /\ dpc = "ratios"
    /\ detect' = [detect EXCEPT !.detected_top = margin_ratio(detect.header_regions),
                                !.detected_bottom = margin_ratio(detect.footer_regions)]
    /\ dpc' = "apply"
    /\ UNCHANGED <<coreVars, contentVars, tableVars, imageVars, restVars>>

\* 486-490: a detected ratio that is positive replaces the caller's.
ApplyDetected ==
    /\ dpc = "apply"
    /\ detect' = [detect EXCEPT
                    !.top_margin_ratio =
                        IF detect.detected_top.n > 0 THEN detect.detected_top ELSE @,
                    !.bottom_margin_ratio =
                        IF detect.detected_bottom.n > 0 THEN detect.detected_bottom ELSE @]
    /\ dpc' = "pages"
    /\ UNCHANGED <<coreVars, contentVars, tableVars, imageVars, restVars>>

\* 495-535: the pages are cropped with the ratios and assembled (NextClean
\* follows this loop page by page).
AssemblePages ==
    /\ dpc = "pages"
    /\ dpc' = "done"
    /\ UNCHANGED <<detect, coreVars, contentVars, tableVars, imageVars, restVars>>

NextDetect ==
    SkipDetection \/ DetectRegions \/ GetMarginRatios \/ ApplyDetected \/ AssemblePages

(***************************************************************************)
(* Image extraction: extract_images_from_pdf (pdf_image_extractor.py       *)
(* 18-170).  An image of a page is its pixels and how the two extraction   *)
(* methods fare on it: "ok" (method 1 saves it), "pixmap" (method 1 raises, *)
(* method 2 saves it), "invalid" (is_valid_image rejects it), "broken"     *)
(* (both methods raise).                                                   *)
(***************************************************************************)
MaxImagePages == 2      \* pages of the PDF
MaxPageImages == 2      \* images of a page
MaxExtractions == 2     \* calls on the same PDF
UrandomValues == 2      \* values os.urandom(8) is drawn from

Pixels == {"a", "b"}
ImageKinds == {"ok", "pixmap", "invalid", "broken"}
PdfImages == [pixels : Pixels, kind : ImageKinds]
ImagePages == SeqsUpTo(SeqsUpTo(PdfImages, MaxPageImages), MaxImagePages) \ {<<>>}

\* generate_short_id (8-15): the first 8 hex digits of the MD5 digest of
\* "<doc_id>_<page_num>_<img_index>_<16 random hex digits>".  The digest is
\* taken to be free of collisions: different texts give different ids.
generate_short_id(doc_id, page_num, img_index, urandom, pixels) ==
    [md5 |-> <<doc_id, page_num, img_index, urandom>>]

\* f"{short_id}.png" and f"http://192.168.10.101:8001/images/{short_id}"
dst_filename(short_id) == [png |-> short_id]
image_url(short_id) == [url |-> short_id]

\* 46-161: the images of one page from position i on.  img_counter counts the
\* images saved so far; salts[i] is what os.urandom returns for image i.
RECURSIVE PageImages(_, _, _, _, _, _)
PageImages(doc_id, page_num, image_list, salts, i, img_counter) ==
    IF i > Len(image_list) THEN <<>>
    ELSE IF image_list[i].kind \in {"ok", "pixmap"}
    THEN LET short_id == generate_short_id(doc_id, page_num, img_counter + 1,
                                           salts[i], image_list[i].pixels)
         IN <<[img_counter |-> img_counter,
               image_url |-> image_url(short_id),
               dst_filename |-> dst_filename(short_id),
               pixels |-> image_list[i].pixels]>>
            \o PageImages(doc_id, page_num, image_list, salts, i + 1, img_counter + 1)
    ELSE PageImages(doc_id, page_num, image_list, salts, i + 1, img_counter)

InitImages ==
    /\ \E pages \in ImagePages :
         images = [ pages |-> pages,
                    doc_id |-> "doc",
                    image_store |-> {},     \* the files of image_store/
                    returned |-> <<>> ]     \* the image_map of every call
    /\ ipc = "extract"

\* One call of extract_images_from_pdf(pdf_path, doc_id).
ExtractImages ==
    /\ ipc = "extract"
    /\ Len(images.returned) < MaxExtractions
    /\ \E salts \in [1..Len(images.pages) -> [1..MaxPageImages -> 1..UrandomValues]] :
         \E image_map \in
               {[p \in 1..Len(images.pages) |->
                    PageImages(images.doc_id, p, images.pages[p], salts[p], 1, 0)]} :
            images' = [images EXCEPT
                         !.returned = Append(@, image_map),
                         !.image_store =
                             {f \in @ : \A p \in 1..Len(image_map) :
                                          \A k \in 1..Len(image_map[p]) :
                                             image_map[p][k].dst_filename # f.name}
                               \cup UNION {{[name |-> image_map[p][k].dst_filename,
                                              pixels |-> image_map[p][k].pixels] :
                                                k \in 1..Len(image_map[p])} :
                                            p \in 1..Len(image_map)}]
    /\ UNCHANGED <<ipc, coreVars, contentVars, detectVars, tableVars, restVars>>

\* No further call is made.
FinishImages ==
    /\ ipc = "extract"
    /\ images.returned # <<>>
    /\ ipc' = "done"
    /\ UNCHANGED <<images, coreVars, contentVars, detectVars, tableVars, restVars>>

NextImages == ExtractImages \/ FinishImages

(***************************************************************************)
(* Tables as text, continued: the rows of a table as lines                 *)
(* (table_formatter.py 139-690) and the block between the two markers      *)
(* (14-97).  A dict is the list of its items <<key, value>> in the order   *)
(* the keys were first set.                                                *)
(***************************************************************************)
\* d[key] = value: a key that is there keeps its place and takes the value.
DictSet(d, key, value) ==
    IF \E i \in 1..Len(d) : d[i][1] = key
    THEN [i \in 1..Len(d) |-> IF d[i][1] = key THEN <<key, value>> ELSE d[i]]
    ELSE Append(d, <<key, value>>)

\* " " * n
RECURSIVE Spaces(_)
Spaces(n) == IF n = 0 THEN <<>> ELSE <<" ">> \o Spaces(n - 1)

\* f"{indent}{header}: {value}"
value_line(indent, header, value) == indent \o header \o <<":", " ">> \o value

\* [clean_whitespace(l) for l in text.split('\n') if clean_whitespace(l)]
cleaned_lines(text) ==
    LET parts == split_on(text, "\n")
    IN SelectSeq([i \in 1..Len(parts) |-> clean_whitespace(parts[i], FALSE)],
                 LAMBDA l : l # <<>>)

\* parse_cell_structure, the first loop (265-322): the level of one more line.
\* st holds the levels of the lines so far, symbol_levels and last_symbol.
line_info(line, i, st) ==
    IF i = 1 THEN [st EXCEPT !.levels = Append(@, 0)]
    ELSE CHOOSE info \in
           { LET known == \E p \in st.symbol_levels : p[1] = symbol
                 current_level ==
                     IF symbol # NoSymbol
                     THEN IF known
                          THEN (CHOOSE p \in st.symbol_levels : p[1] = symbol)[2]
                          ELSE IF st.last_symbol # NoSymbol /\ st.last_symbol # symbol
                               THEN Last(st.levels) + 1
                          ELSE IF st.last_symbol = symbol THEN Last(st.levels)
                          ELSE 1
                     ELSE IF st.levels # <<>> THEN Last(st.levels) + 1 ELSE 1
             IN [levels |-> Append(st.levels, current_level),
                 symbol_levels |->
                     IF symbol # NoSymbol /\ ~known
                     THEN st.symbol_levels \cup {<<symbol, current_level>>}
                     ELSE st.symbol_levels,
                 last_symbol |-> symbol]
               : symbol \in {extract_symbol_pattern(line)} } : TRUE

RECURSIVE line_infos(_, _, _)
line_infos(lines, i, st) ==
    IF i > Len(lines) THEN st.levels
    ELSE CHOOSE r \in { line_infos(lines, i + 1, next)
                          : next \in {line_info(lines[i], i, st)} } : TRUE

\* parse_cell_structure: parsed_values (330-343), common_values and
\* distributed_values (346-353)
parsed_values(value_data) ==
    [k \in 1..Len(value_data) |->
        <<value_data[k][1],
          IF Contains(<<"\n">>, value_data[k][2])
          THEN cleaned_lines(value_data[k][2])
          ELSE <<clean_whitespace(value_data[k][2], FALSE)>> >>]

common_values(parsed) ==
    LET one == SelectSeq(parsed, LAMBDA p : Len(p[2]) = 1)
    IN [k \in 1..Len(one) |-> <<one[k][1], one[k][2][1]>>]

distributed_values(parsed) == SelectSeq(parsed, LAMBDA p : Len(p[2]) # 1)

\* parse_cell_structure: leaf_items (366-370)
leaf_items(levels) ==
    { i \in 1..Len(levels) :
        /\ i = Len(levels) \/ levels[i + 1] <= levels[i]
        /\ levels[i] > 0 }

\* parse_cell_structure: the values a leaf takes of the distributed ones
\* (389-393)
RECURSIVE leaf_values(_, _, _)
leaf_values(values, distributed, value_index) ==
    IF distributed = <<>> THEN values
    ELSE CHOOSE r \in
           { leaf_values(v, Tail(distributed), value_index)
               : v \in { IF value_index < Len(Head(distributed)[2])
                         THEN DictSet(values, Head(distributed)[1],
                                      Head(distributed)[2][value_index + 1])
                         ELSE values } } : TRUE

\* parse_cell_structure, the last loop (373-415): one more item.  An item is
\* its text, level, values and parent, the place of its parent in the list
\* of items or 0 for an item of the structure itself.  st holds the items,
\* current_items as pairs <<level, place>> and value_index.
structure_item(text, level, is_leaf, common, distributed, st) ==
    LET place == Len(st.items) + 1
        values == IF level = 0 THEN common ELSE <<>>
        with_leaf == IF is_leaf THEN leaf_values(values, distributed, st.value_index)
                     ELSE values
        value_index == IF is_leaf THEN st.value_index + 1 ELSE st.value_index
        has_parent == level > 0 /\ \E p \in st.current_items : p[1] = level - 1
        parent == IF has_parent
                  THEN (CHOOSE p \in st.current_items : p[1] = level - 1)[2]
                  ELSE 0
        kept == IF level = 0
                THEN {p \in st.current_items : ~(p[1] >= 1 /\ p[1] < 10) /\ p[1] # 0}
                ELSE IF has_parent
                THEN {p \in st.current_items :
                          ~(p[1] >= level + 1 /\ p[1] < 10) /\ p[1] # level}
                ELSE {p \in st.current_items : p[1] # level}
    IN [items |-> Append(st.items, [text |-> text, level |-> level,
                                    values |-> with_leaf, parent |-> parent]),
        current_items |-> kept \cup {<<level, place>>},
        value_index |-> value_index]

RECURSIVE structure_items(_, _, _, _, _, _)
structure_items(lines, levels, common, distributed, i, st) ==
    IF i > Len(lines) THEN st.items
    ELSE CHOOSE r \in
           { structure_items(lines, levels, common, distributed, i + 1, next)
               : next \in { structure_item(lines[i], levels[i],
                                           i \in leaf_items(levels),
                                           common, distributed, st) } } : TRUE

\* parse_cell_structure (251-430).  The lines are strings and the values are
\* strings, so nothing in it raises.
parse_cell_structure(lines, value_data) ==
    IF lines = <<>> THEN <<>>
    ELSE CHOOSE structure \in
           { structure_items(lines, levels, common_values(parsed),
                             distributed_values(parsed), 1,
                             [items |-> <<>>, current_items |-> {}, value_index |-> 0])
               : levels \in { line_infos(lines, 1,
                                  [levels |-> <<>>, symbol_levels |-> {},
                                   last_symbol |-> NoSymbol]) },
                 parsed \in { parsed_values(value_data) } } : TRUE

\* item['children'] of the item at place k, the structure itself for k = 0
children(structure, k) ==
    SelectSeq([i \in 1..Len(structure) |-> i], LAMBDA i : structure[i].parent = k)

\* output_structured_item (483-524): the lines it appends for the item at
\* place k and the items below it.
RECURSIVE output_structured_item(_, _, _)
output_structured_item(structure, k, is_first_in_section) ==
    LET item == structure[k]
        below == children(structure, k)
    IN (IF item.level = 0 /\ ~is_first_in_section THEN << <<>> >> ELSE <<>>)
       \o << Spaces(2 * item.level) \o item.text >>
       \o [v \in 1..Len(item.values) |->
              value_line(Spaces(2 * (item.level + 1)),
                         item.values[v][1], item.values[v][2])]
       \o Concat([c \in 1..Len(below) |->
                     output_structured_item(structure, below[c], FALSE)])

\* process_complex_hierarchical_table: value_data of a row (179-198).
\* col_idx counts from 0 as in the source.
RECURSIVE value_data(_, _, _, _)
value_data(headers, row, col_idx, d) ==
    IF col_idx >= Len(headers) THEN d
    ELSE CHOOSE r \in
           { value_data(headers, row, col_idx + 1, next)
               : next \in
                   { IF col_idx < Len(row) /\ row[col_idx + 1] # <<>>
                     THEN LET header_name ==
                                  IF headers[col_idx + 1] # <<>>
                                  THEN clean_whitespace(headers[col_idx + 1], FALSE)
                                  ELSE <<"k:keol", "k:reom">> \o Str(col_idx)
                              cell_value == clean_whitespace(row[col_idx + 1], TRUE)
                          IN IF cell_value # <<>>
                             THEN DictSet(d, header_name, cell_value)
                             ELSE d
                     ELSE d } } : TRUE

\* ["  header: value" for header, value in value_data.items()]
value_lines(d) ==
    [k \in 1..Len(d) |-> value_line(<<" ", " ">>, d[k][1], d[k][2])]

\* process_complex_hierarchical_table: the lines of one row (162-233)
complex_row(headers, row) ==
    IF row = <<>> \/ \A c \in 1..Len(row) : IsBlank(row[c]) THEN <<>>
    ELSE CHOOSE r \in
           { LET has_any_value == d # <<>>
             IN IF strip(first_cell) = <<>> /\ has_any_value
                THEN << <<>>, <<"(", "k:gye", "k:sok", ")">> >> \o value_lines(d)
                ELSE IF strip(first_cell) = <<>> THEN <<>>
                ELSE IF ~Contains(<<"\n">>, first_cell)
                THEN (IF StartsWith(first_cell, <<"->">>) THEN <<>> ELSE << <<>> >>)
                     \o <<strip(first_cell)>> \o value_lines(d)
                ELSE CHOOSE out \in
                       { Concat([k \in 1..Len(children(structure, 0)) |->
                                    output_structured_item(
                                        structure, children(structure, 0)[k], k = 1)])
                           : structure \in
                               { parse_cell_structure(cleaned_lines(first_cell), d) } }
                       : TRUE
               : first_cell \in { clean_whitespace(row[1], TRUE) },
                 d \in { value_data(headers, row, 1, <<>>) } } : TRUE

\* process_complex_hierarchical_table (139-248).  The cells are strings, so
\* the handlers of 158 and 235 are never entered.
process_complex_hierarchical_table(headers, data_rows) ==
    LET cleaned_headers ==
            [c \in 1..Len(headers) |-> clean_whitespace(headers[c], FALSE)]
    IN (IF \E c \in 1..Len(headers) : cleaned_headers[c] # <<>>
        THEN << <<"k:he", "k:deo", ":", " ">> \o join(<<"\t">>, cleaned_headers) >>
        ELSE <<>>)
       \o Concat([k \in 1..Len(data_rows) |-> complex_row(headers, data_rows[k])])

\* "  field:" and "    - line" for a value of several lines, "  field: value"
\* for a value of one line, nothing for an empty value (626-634, 673-681)
field_lines(field_name, value_str) ==
    IF value_str = <<>> THEN <<>>
    ELSE IF Contains(<<"\n">>, value_str)
    THEN LET lines == SelectSeq(split_on(value_str, "\n"),
                                LAMBDA line : strip(line) # <<>>)
         IN << <<" ", " ">> \o field_name \o <<":">> >>
            \o [k \in 1..Len(lines) |->
                   <<" ", " ", " ", " ", "-", " ">> \o strip(lines[k])]
    ELSE << value_line(<<" ", " ">>, field_name, value_str) >>

\* f"\n레코드 {idx + 1}:", for record idx counting from 0
record_line(record) ==
    <<"\n", "k:re", "k:ko", "k:deu", " ">> \o Str(record + 1) \o <<":">>

\* process_simple_table (596-643)
process_simple_table(headers, data_rows) ==
    (IF headers # <<>>
     THEN << <<"k:he", "k:deo", ":", " ">>
             \o join(<<" ", "|", " ">>, [c \in 1..Len(headers) |-> strip(headers[c])]) >>
     ELSE <<>>)
    \o Concat([k \in 1..Len(data_rows) |->
          LET row == data_rows[k]
          IN IF \A c \in 1..Len(row) : strip(row[c]) = <<>> THEN <<>>
             ELSE <<record_line(k - 1)>>
                  \o Concat([c \in 1..Len(row) |->
                        field_lines(
                            IF c <= Len(headers) /\ headers[c] # <<>>
                            THEN strip(headers[c])
                            ELSE <<"k:yeol">> \o Str(c),
                            strip(row[c]))])])

\* process_table_without_headers (646-690)
process_table_without_headers(data_rows) ==
    LET widths == {Len(data_rows[k]) : k \in 1..Len(data_rows)}
        max_cols == IF data_rows = <<>> THEN 0
                    ELSE CHOOSE n \in widths : \A m \in widths : m <= n
    IN Concat([k \in 1..Len(data_rows) |->
          LET row == data_rows[k]
          IN IF \A c \in 1..Len(row) : strip(row[c]) = <<>> THEN <<>>
             ELSE <<record_line(k - 1)>>
                  \o Concat([c \in 1..max_cols |->
                        field_lines(<<"k:hang", "k:mok">> \o Str(c),
                                    IF c <= Len(row) THEN strip(row[c]) ELSE <<>>)])])

\* f"[표 {table_num} - 페이지 {page_num} 시작]" and "... 끝]"
start_marker(table_num, page_num) ==
    <<"[", "k:pyo", " ">> \o Str(table_num)
    \o <<" ", "-", " ", "k:pe", "k:i", "k:ji", " ">> \o Str(page_num)
    \o <<" ", "k:si", "k:jak", "]">>

end_marker(table_num, page_num) ==
    <<"[", "k:pyo", " ">> \o Str(table_num)
    \o <<" ", "-", " ", "k:pe", "k:i", "k:ji", " ">> \o Str(page_num)
    \o <<" ", "k:kkeut2", "]">>

\* table_to_text_with_positions: first_row_is_header (51).  rounds_above is
\* passed on to analyze_header_with_similarity.
first_row_is_header(processed_data, rounds_above) ==
    IF Len(processed_data) >= 3
    THEN analyze_header_with_similarity(processed_data, rounds_above)
    ELSE IF processed_data # <<>> THEN is_header_row(processed_data[1])
    ELSE FALSE

\* table_to_text_with_positions (22-97): the lines between the markers
table_text_parts(processed_data, rounds_above) ==
    IF first_row_is_header(processed_data, rounds_above) /\ Len(processed_data) > 1
    THEN LET headers == processed_data[1]
             data_rows == Tail(processed_data)
         IN IF analyze_table_type(headers, data_rows) = "complex_hierarchical"
            THEN process_complex_hierarchical_table(headers, data_rows)
            ELSE process_simple_table(headers, data_rows)
    ELSE process_table_without_headers(processed_data)

table_to_text_with_positions(data, cell_data, table_num, page_num, rounds_above) ==
    IF data = <<>> THEN <<>>
    ELSE CHOOSE final_text \in
           { join(<<"<", "b", "r", ">">>,
                  <<start_marker(table_num, page_num)>>
                  \o table_text_parts(processed_data, rounds_above)
                  \o <<end_marker(table_num, page_num)>>)
               : processed_data \in {preprocess_table_data(data)} } : TRUE

\* table_to_text (14-19)
table_to_text(data, table_num, page_num, rounds_above) ==
    table_to_text_with_positions(data, <<>>, table_num, page_num, rounds_above)

(***************************************************************************)
(* table_to_text on the grids of a page: a call with a grid, a table       *)
(* number and a page number, and its return.  The first row of a grid is   *)
(* made of header names and of values, the other rows of a first cell and  *)
(* of values; a cell that pdfplumber found empty is None.                  *)
(***************************************************************************)
MaxTableRows == 3
MaxTableCols == 3
MaxTableCells == 6
MaxTableNum == 2
MaxPageNum == 2

FirstRowCells ==
    { <<"k:hang", "k:mok">>, <<"k:ha", "k:han", "k:chi">>,
      <<"k:sang", "k:han", "k:chi">>, <<>>, <<"1", "0">> }
FirstCells ==
    { <<"k:ju", "k:pa", "k:su">>, <<>>, <<"->", " ", "k:chae", "k:neol">>,
      <<"k:ju", "k:pa", "k:su", "\n", "-", " ", "k:chae", "k:neol", "\n",
        "-", " ", "k:chae", "k:neol", " ", "2">> }
ValueCells == { <<"1", "0">>, <<"2", "0">>, None, <<"1", "0", "\n", "2", "0">> }

TableShapes ==
    { shape \in (1..MaxTableRows) \X (1..MaxTableCols) :
        shape[1] * shape[2] <= MaxTableCells }

TableRows(cols) ==
    { [c \in 1..cols |-> IF c = 1 THEN first ELSE values[c - 1]]
        : first \in FirstCells, values \in [1..(cols - 1) -> ValueCells] }

TableGrids ==
    UNION { { [r \in 1..shape[1] |-> IF r = 1 THEN first_row ELSE others[r - 1]]
                : first_row \in [1..shape[2] -> FirstRowCells],
                  others \in [1..(shape[1] - 1) -> TableRows(shape[2])] }
            : shape \in TableShapes }

InitTable ==
    /\ table \in { [data |-> data, table_num |-> table_num, page_num |-> page_num,
                    first_row_is_header |-> FALSE, text |-> <<>>]
                     : data \in TableGrids,
                       table_num \in 1..MaxTableNum, page_num \in 1..MaxPageNum }
    /\ tpc = "call"

\* table_to_text(data, table_num, page_num) returns the block
TableToText ==
    /\ tpc = "call"
    /\ \E rounds_above \in BOOLEAN :
          table' = [table EXCEPT
                       !.first_row_is_header =
                           first_row_is_header(preprocess_table_data(table.data),
                                               rounds_above),
                       !.text = table_to_text(table.data, table.table_num,
                                              table.page_num, rounds_above)]
    /\ tpc' = "done"
    /\ UNCHANGED <<coreVars, contentVars, detectVars, imageVars, restVars>>

NextTable == TableToText

(***************************************************************************)
(* The content of a page with its tables in place:                         *)
(* extract_page_content_with_tables (pdf_text_processor.py 75-149).  A     *)
(* page is its lines of characters from the top down, a line its text and  *)
(* its top; the tops of two lines are further apart than line_tolerance,   *)
(* so the lines that extract_lines_excluding_regions groups the characters *)
(* into are these.  A table is the lines first..last of the page, across   *)
(* its width: bbox is (top, bottom), and every character of a line in      *)
(* first..last lies inside it.  outcome says how the library treats the    *)
(* table: "ok", "raises" (table.extract() or table.bbox raises) or "empty" *)
(* (table.extract() returns no rows).                                      *)
(***************************************************************************)
MaxContentRows == 4
MaxPageTables == 2
MaxContentPageNum == 2

RowTop(r) == 10 * r
RowBottom(r) == (10 * r) + 9

Sentence(r) == <<"l", "i", "n", "e", " ">> \o Str(r)
BlankLine == <<" ">>

\* The cells of line r of a table that starts at line first
TableCells(first, r) ==
    IF r = first THEN << <<"k:hang", "k:mok">>, <<"k:ha", "k:han", "k:chi">> >>
    ELSE << <<"k:ju", "k:pa", "k:su">>, Str(r) >>

PageTables ==
    LET ranges == { range \in (1..MaxContentRows) \X (1..MaxContentRows) :
                      range[1] <= range[2] }
        outcomes == {"ok", "raises", "empty"}
        one(range, outcome) == [first |-> range[1], last |-> range[2],
                                bbox |-> <<RowTop(range[1]), RowBottom(range[2])>>,
                                outcome |-> outcome]
    IN { ts \in SeqsUpTo({one(range, outcome) : range \in ranges, outcome \in outcomes},
                         MaxPageTables) :
           \A i, j \in 1..Len(ts) :
               i # j => ts[i].last < ts[j].first \/ ts[j].last < ts[i].first }

InTable(tables, r) == \E i \in 1..Len(tables) : tables[i].first <= r /\ r <= tables[i].last

\* page.chars, line by line: the cells of a line of a table stand next to
\* each other with a gap between them.
PageChars(tables) ==
    { [r \in 1..MaxContentRows |->
          [top |-> RowTop(r),
           text |-> IF InTable(tables, r)
                    THEN LET t == CHOOSE i \in 1..Len(tables) :
                                      tables[i].first <= r /\ r <= tables[i].last
                         IN join(<<" ">>, TableCells(tables[t].first, r))
                    ELSE IF kinds[r] = "text" THEN Sentence(r) ELSE BlankLine]]
        : kinds \in { k \in [1..MaxContentRows -> {"text", "blank"}] :
                        \A r \in 1..MaxContentRows : InTable(tables, r) => k[r] = "text" } }

\* table.extract(), with None for an empty cell replaced as in
\* extract_table_with_linebreaks (152-189); get_cell_bbox (192-208) finds no
\* cell, so the text of a cell is str(cell).
extract_table_with_linebreaks(tbl) ==
    IF tbl.outcome = "empty" THEN <<>>
    ELSE [r \in 1..(tbl.last - tbl.first + 1) |->
             TableCells(tbl.first, tbl.first + r - 1)]

\* The body of the loop over the tables (97-120) for the table at table_idx,
\* counted from 0: the content blocks after it.
table_block_KeepsBbox(content_blocks, tbl, table_idx, page_num, rounds_above) ==
    IF tbl.outcome = "raises" \/ extract_table_with_linebreaks(tbl) = <<>>
    THEN Append(content_blocks,
                [type |-> "table", content |-> <<>>, bbox |-> tbl.bbox,
                 top |-> tbl.bbox[1]])
    ELSE Append(content_blocks,
                [type |-> "table",
                 content |-> table_to_text(extract_table_with_linebreaks(tbl),
                                           table_idx + 1, page_num, rounds_above),
                 bbox |-> tbl.bbox, top |-> tbl.bbox[1]])
table_block(content_blocks, tbl, table_idx, page_num, rounds_above) ==
    IF tbl.outcome = "raises" THEN content_blocks
    ELSE IF extract_table_with_linebreaks(tbl) = <<>> THEN content_blocks
    ELSE Append(content_blocks,
                [type |-> "table",
                 content |-> table_to_text(extract_table_with_linebreaks(tbl),
                                           table_idx + 1, page_num, rounds_above),
                 bbox |-> tbl.bbox, top |-> tbl.bbox[1]])

\* table_bboxes (123)
table_bboxes(content_blocks) ==
    {content_blocks[i].bbox : i \in {j \in 1..Len(content_blocks) :
                                        content_blocks[j].type = "table"}}

\* extract_lines_excluding_regions (275-329): the lines of the characters
\* that lie in none of the regions, from the top down.
extract_lines_excluding_regions(chars, exclude_bboxes) ==
    SelectSeq(chars, LAMBDA char :
        ~\E bbox \in exclude_bboxes : bbox[1] <= char.top /\ char.top <= bbox[2])

\* The blocks of the lines that are not blank (132-139)
text_blocks(lines) ==
    LET kept == SelectSeq(lines, LAMBDA line : strip(line.text) # <<>>)
    IN [i \in 1..Len(kept) |->
           [type |-> "text", content |-> kept[i].text,
            bbox |-> <<kept[i].top, kept[i].top + 9>>, top |-> kept[i].top]]

\* content_blocks.sort(key=lambda x: x['top']) (142): blocks with the same
\* top keep their order.
RECURSIVE sort_by_top(_)
sort_by_top(blocks) ==
    IF blocks = <<>> THEN <<>>
    ELSE LET least == CHOOSE i \in 1..Len(blocks) :
                          /\ \A j \in 1..Len(blocks) : blocks[i].top <= blocks[j].top
                          /\ \A j \in 1..(i - 1) : blocks[j].top # blocks[i].top
         IN <<blocks[least]>>
            \o sort_by_top([k \in 1..(Len(blocks) - 1) |->
                               IF k < least THEN blocks[k] ELSE blocks[k + 1]])

\* page.extract_text(x_tolerance=1, y_tolerance=1) or "" (86): the lines of
\* the page that are not blank.
page_extract_text(chars) ==
    LET kept == SelectSeq(chars, LAMBDA line : strip(line.text) # <<>>)
    IN join(<<"\n">>, [i \in 1..Len(kept) |-> kept[i].text])

ContentFaults == {"none", "find_tables"}

InitContent ==
    /\ content \in
         UNION { { [chars |-> chars, tables |-> tables, page_num |-> page_num,
                    fault |-> fault, table_idx |-> 0, blocks |-> <<>>, result |-> <<>>]
                     : chars \in PageChars(tables), page_num \in 1..MaxContentPageNum,
                       fault \in ContentFaults }
                 : tables \in PageTables }
    /\ epc = "call"

\* page.find_tables() raises (81): nothing catches it.
FindTablesRaises ==
    /\ epc = "call"
    /\ content.fault = "find_tables"
    /\ epc' = "raised"
    /\ UNCHANGED <<content, coreVars, detectVars, tableVars, imageVars, restVars>>

\* 83-86: a page without tables
PageWithoutTables ==
    /\ epc = "call"
    /\ content.fault = "none"
    /\ content.tables = <<>>
    /\ content' = [content EXCEPT !.result = page_extract_text(content.chars)]
    /\ epc' = "done"
    /\ UNCHANGED <<coreVars, detectVars, tableVars, imageVars, restVars>>

\* 97-120: one round of the loop over the tables
ExtractTable ==
    /\ epc \in {"call", "tables"}
    /\ content.fault = "none"
    /\ content.table_idx < Len(content.tables)
    /\ \E rounds_above \in BOOLEAN :
          content' = [content EXCEPT
              !.blocks = table_block(content.blocks,
                                     content.tables[content.table_idx + 1],
                                     content.table_idx, content.page_num, rounds_above),
              !.table_idx = @ + 1]
    /\ epc' = "tables"
    /\ UNCHANGED <<coreVars, detectVars, tableVars, imageVars, restVars>>

\* 122-149: the lines outside the tables, the sort and the join
AssembleContent ==
    /\ epc = "tables"
    /\ content.table_idx = Len(content.tables)
    /\ \E sorted \in
           { sort_by_top(content.blocks
                 \o text_blocks(extract_lines_excluding_regions(
                        content.chars, table_bboxes(content.blocks)))) } :
          content' = [content EXCEPT
              !.blocks = sorted,
              !.result = join(<<"\n">>, [i \in 1..Len(sorted) |-> sorted[i].content])]
    /\ epc' = "done"
    /\ UNCHANGED <<coreVars, detectVars, tableVars, imageVars, restVars>>

NextContent == FindTablesRaises \/ PageWithoutTables \/ ExtractTable \/ AssembleContent

(***************************************************************************)
(* parse_cell_structure on the lines of a first cell: a call with the      *)
(* cleaned lines and the values of the row, and its return.  A line begins *)
(* with "-", with a number and ")", with an arrow, or with no marker.      *)
(***************************************************************************)
MaxCellLines == 4

CellLines ==
    { <<"k:ju", "k:pa", "k:su">>,
      <<"-", " ", "k:chae", "k:neol">>,
      <<"1", ")", " ", "k:chae", "k:neol">>,
      <<"->", " ", "k:chae", "k:neol">> }
CellValues ==
    { <<>>,
      << << <<"k:ha", "k:han", "k:chi">>, <<"1", "0", "\n", "2", "0">> >> >> }

InitCell ==
    /\ cell_call \in { [lines |-> lines, value_data |-> values, structure |-> <<>>]
                         : lines \in SeqsUpTo(CellLines, MaxCellLines) \ {<<>>},
                           values \in CellValues }
    /\ lpc = "call"

\* parse_cell_structure(lines, value_data) returns the structure
ParseCellStructure ==
    /\ lpc = "call"
    /\ cell_call' = [cell_call EXCEPT
                        !.structure = parse_cell_structure(cell_call.lines,
                                                           cell_call.value_data)]
    /\ lpc' = "done"
    /\ UNCHANGED <<coreVars, pdfVars, socketVars>>

NextCell == ParseCellStructure

(***************************************************************************)
(* WebSocket connections: ConnectionManager and websocket_endpoint         *)
(* (api/websocket_handler.py).  A socket is the WebSocket object of one    *)
(* call of websocket_endpoint; the handler runs from one await to the next *)
(* without interruption.                                                   *)
(***************************************************************************)
MaxSockets == 3        \* calls of websocket_endpoint

\* key = f"{sosok}_{site}" of the sites that connect.
SiteKeys == {"hq_north", "hq_south"}

\* ConnectionManager.connect after "await websocket.accept()" (18-22)
connect(connections, websocket, key) ==
    [k \in DOMAIN connections \cup {key} |->
        IF k = key
        THEN (IF key \in DOMAIN connections THEN connections[key] ELSE {}) \cup {websocket}
        ELSE connections[k]]

\* ConnectionManager.disconnect (25-31): the key goes with its last socket.
disconnect(connections, websocket, key) ==
    IF key \notin DOMAIN connections THEN connections
    ELSE IF connections[key] \ {websocket} = {}
    THEN [k \in DOMAIN connections \ {key} |-> connections[k]]
    ELSE [connections EXCEPT ![key] = @ \ {websocket}]

\* ConnectionManager.send_to_site (33-49): the sockets whose send_json raises
\* are discarded; the key stays.
send_to_site(connections, key, raising) ==
    IF key \notin DOMAIN connections THEN connections
    ELSE [connections EXCEPT ![key] = @ \ raising]

\* The sockets whose client is gone: send_json raises on them.
ClosedSockets == {s \in DOMAIN endpoints : ~endpoints[s].open}

\* The handler of a socket has ended, by return or by an exception.
Finished(s) == [endpoints EXCEPT ![s].at = "finished"]

\* websocket_endpoint is called (69-75): manager.connect accepts the socket
\* and adds it to the sockets of its key; accept raises when the client is
\* gone already, outside the handler's try.
Connect ==
    /\ Cardinality(DOMAIN endpoints) < MaxSockets
    /\ \E key \in SiteKeys, accepted \in BOOLEAN :
         LET s == Cardinality(DOMAIN endpoints) + 1
             call == [key |-> key, at |-> IF accepted THEN "initial" ELSE "finished",
                      open |-> accepted]
         IN /\ endpoints' = [e \in DOMAIN endpoints \cup {s} |->
                                IF e = s THEN call ELSE endpoints[e]]
            /\ active_connections' =
                   IF accepted THEN connect(active_connections, s, key)
                   ELSE active_connections
    /\ UNCHANGED <<coreVars, pdfVars, cellVars>>

\* The client goes away while the handler runs.
ClientCloses ==
    \E s \in DOMAIN endpoints :
        /\ endpoints[s].at \in {"initial", "receive"}
        /\ endpoints[s].open
        /\ endpoints' = [endpoints EXCEPT ![s].open = FALSE]
        /\ UNCHANGED active_connections
        /\ UNCHANGED <<coreVars, pdfVars, cellVars>>

\* 77-83, 150-154: the initial task list is sent; a send that raises is
\* caught by the handlers at the end, which call manager.disconnect.
SendInitialTasks ==
    \E s \in DOMAIN endpoints :
        /\ endpoints[s].at = "initial"
        /\ IF endpoints[s].open
           THEN /\ endpoints' = [endpoints EXCEPT ![s].at = "receive"]
                /\ UNCHANGED active_connections
           ELSE /\ endpoints' = Finished(s)
                /\ active_connections' =
                       disconnect(active_connections, s, endpoints[s].key)
        /\ UNCHANGED <<coreVars, pdfVars, cellVars>>

\* 87-131, 150-154: receive_text returns a message and its answer is sent,
\* or receive_text raises WebSocketDisconnect, or the client goes away before
\* the answer and the send raises; both exceptions end in manager.disconnect.
ReceiveMessage ==
    \E s \in DOMAIN endpoints, answered \in BOOLEAN :
        /\ endpoints[s].at = "receive"
        /\ IF endpoints[s].open /\ answered
           THEN UNCHANGED <<endpoints, active_connections>>
           ELSE /\ endpoints' = [Finished(s) EXCEPT ![s].open = FALSE]
                /\ active_connections' =
                       disconnect(active_connections, s, endpoints[s].key)
        /\ UNCHANGED <<coreVars, pdfVars, cellVars>>

\* 133-148: receive_text times out after 5 seconds.  With active tasks the
\* task list is sent first, and a send that raises there ends in
\* manager.disconnect; then the ping is sent, and when that raises the loop
\* is left by "break" and the handler returns.
Heartbeat ==
    \E s \in DOMAIN endpoints, active_tasks \in BOOLEAN :
        /\ endpoints[s].at = "receive"
        /\ IF endpoints[s].open
           THEN UNCHANGED <<endpoints, active_connections>>
           ELSE /\ endpoints' = Finished(s)
                /\ active_connections' =
                       IF active_tasks
                       THEN disconnect(active_connections, s, endpoints[s].key)
                       ELSE active_connections
        /\ UNCHANGED <<coreVars, pdfVars, cellVars>>

\* broadcast_task_update (51-65): a task of the site changed and the task
\* list is sent to every socket of the key.
SendToSite ==
    \E key \in SiteKeys :
        /\ active_connections' = send_to_site(active_connections, key, ClosedSockets)
        /\ UNCHANGED endpoints
        /\ UNCHANGED <<coreVars, pdfVars, cellVars>>

InitSockets ==
    /\ active_connections = <<>>
    /\ endpoints = <<>>

NextSockets ==
    \/ Connect \/ ClientCloses \/ SendInitialTasks
    \/ ReceiveMessage \/ Heartbeat \/ SendToSite

(***************************************************************************)
(* Specifications                                                          *)
(***************************************************************************)
InitSplit ==
    /\ page_texts \in {Pages(LabelTables(d)) : d \in Documents}
    /\ matches = <<>>
    /\ idx = 1
    /\ split = SplitStart
    /\ spc = "scan"

IdleSplit ==
    /\ page_texts = <<>>
    /\ matches = <<>>
    /\ idx = 1
    /\ split = SplitStart
    /\ spc = "idle"

InitWindow ==
    /\ \E variant \in Variants,
          window_size \in 0..MaxWindow, overlap \in 0..MaxWindow :
         \E counts \in IF variant = "pdf"
                       THEN SeqsUpTo(0..MaxPageTokens, MaxPages)
                       ELSE {<<n>> : n \in 0..(MaxPages * MaxPageTokens)} :
            win = WindowStart(variant, counts, window_size, overlap)
    /\ wpc = "loop"

IdleWindow ==
    /\ win = WindowStart("pdf", <<>>, 1, 0)
    /\ wpc = "idle"

InitClean ==
    /\ \E pages \in PdfPages, top \in 0..MaxMargin, bottom \in 0..MaxMargin,
          auto_detect_header_footer \in BOOLEAN :
         \E image_map \in SUBSET (1..Len(pages)) :
            clean = CleanStart(pages, top, bottom, image_map, auto_detect_header_footer)
    /\ cpc = "detect"

IdleClean ==
    /\ clean = CleanStart(<<>>, 0, 0, {}, FALSE)
    /\ cpc = "idle"

InitTasks ==
    /\ tasks = <<>>
    /\ uploads_dir = <<>>
    /\ processing_queue = <<>>
    /\ requests = {}
    /\ worker = WorkerWaiting
    /\ document_store = {}
    /\ clock = 0
    /\ runs = <<>>
    /\ cancelled = {}

NextSplit == ScanHeadings \/ BuildSection \/ ReturnSections
NextWindow == WindowStep \/ WindowReturn
NextClean == DetectMargins \/ CleanPage \/ ReturnCleaned
NextTasks ==
    \/ UploadBegin \/ UploadEnd \/ CancelTask
    \/ DismissTask \/ SocketDismissTask \/ DismissCompletedTasks
    \/ StaleCheck \/ Tick
    \/ WorkerGet \/ WorkerWriteBatch \/ WorkerComplete

\* Nothing of the PDF page operations is running.
IdleContent == content = [blocks |-> <<>>] /\ epc = "idle"
IdleDetect == detect = [pages |-> <<>>] /\ dpc = "idle"
IdleTable == table = [data |-> <<>>] /\ tpc = "idle"
IdleImages == images = [pages |-> <<>>] /\ ipc = "idle"
IdleCell == cell_call = [lines |-> <<>>] /\ lpc = "idle"
IdleSockets == active_connections = <<>> /\ endpoints = <<>>
IdleRest == IdleCell /\ IdleSockets
IdlePdf == IdleContent /\ IdleDetect /\ IdleTable /\ IdleImages /\ IdleRest

InitSpecSplit == InitSplit /\ IdleWindow /\ IdleClean /\ InitTasks /\ IdlePdf
InitSpecWindow == IdleSplit /\ InitWindow /\ IdleClean /\ InitTasks /\ IdlePdf
InitSpecClean == IdleSplit /\ IdleWindow /\ InitClean /\ InitTasks /\ IdlePdf
InitSpecTasks == IdleSplit /\ IdleWindow /\ IdleClean /\ InitTasks /\ IdlePdf
IdleCore == IdleSplit /\ IdleWindow /\ IdleClean /\ InitTasks
InitSpecDetect == IdleCore /\ IdleContent /\ InitDetect /\ IdleTable /\ IdleImages /\ IdleRest
InitSpecImages == IdleCore /\ IdleContent /\ IdleDetect /\ IdleTable /\ InitImages /\ IdleRest
InitSpecTable == IdleCore /\ IdleContent /\ IdleDetect /\ InitTable /\ IdleImages /\ IdleRest
InitSpecContent == IdleCore /\ InitContent /\ IdleDetect /\ IdleTable /\ IdleImages /\ IdleRest
InitSpecCell == IdleCore /\ IdleContent /\ IdleDetect /\ IdleTable /\ IdleImages /\ InitCell /\ IdleSockets
InitSpecSockets == IdleCore /\ IdleContent /\ IdleDetect /\ IdleTable /\ IdleImages /\ IdleCell /\ InitSockets

SpecSplit == InitSpecSplit /\ [][NextSplit]_vars
SpecWindow == InitSpecWindow /\ [][NextWindow]_vars
SpecClean == InitSpecClean /\ [][NextClean]_vars
SpecTasks == InitSpecTasks /\ [][NextTasks]_vars
\* The worker is one coroutine of the event loop (background_upload.py 16-42):
\* it is resumed whenever its queue.get, sleep or write has ended.
\* "task_id = await queue.get()" returns (20-24): every WorkerGet step is such
\* a step, and no other step takes an id from the queue.
WorkerTakes ==
    /\ worker.at = "get"
    /\ processing_queue # <<>>
    /\ processing_queue' = Tail(processing_queue)

SpecTasksFair ==
    /\ InitSpecTasks /\ [][NextTasks]_vars
    /\ WF_processing_queue(WorkerTakes)
    /\ WF_vars(WorkerWriteBatch) /\ WF_vars(WorkerComplete)
SpecDetect == InitSpecDetect /\ [][NextDetect]_vars
SpecImages == InitSpecImages /\ [][NextImages]_vars
SpecTable == InitSpecTable /\ [][NextTable]_vars
SpecContent == InitSpecContent /\ [][NextContent]_vars
SpecCell == InitSpecCell /\ [][NextCell]_vars
SpecSockets == InitSpecSockets /\ [][NextSockets]_vars

(***************************************************************************)
(* Claims about the section splitter                                       *)
(***************************************************************************)
IsNumeric(line) == line.kind = "num"

\* The successor relation on heading numbers: the later number increments the
\* last component at the same depth, or extends the earlier one by a level
\* ending in 1, or increments an ancestor component with every deeper
\* component equal to 1.
StrictSuccessor(prev, cur) ==
    \/ /\ Len(cur) = Len(prev)
       /\ Front(cur) = Front(prev)
       /\ Last(cur) = Last(prev) + 1
    \/ cur = prev \o <<1>>
    \/ \E i \in 1..(Len(prev) - 1) :
         /\ i <= Len(cur)
         /\ SubSeq(cur, 1, i - 1) = SubSeq(prev, 1, i - 1)
         /\ cur[i] = prev[i] + 1
         /\ \A j \in (i + 1)..Len(cur) : cur[j] = 1

\* The lines of all pages, in order, and the contents of all sections, in order.
AllLines == Concat(page_texts)
AllContent == Concat([i \in 1..Len(split.sections) |-> split.sections[i].content])
Occurrences(line, text) == Cardinality({i \in 1..Len(text) : text[i] = line})
TablesOf(text) == {text[i] : i \in {j \in 1..Len(text) : text[j].kind = "tbl"}}

\* C1: any two numeric sections emitted one right after the other satisfy the
\* successor relation.
C1_EmittedNumbersAreSuccessors ==
    \A i \in 1..(Len(split.sections) - 1) :
        LET a == split.sections[i].section_id
            b == split.sections[i + 1].section_id
        IN (IsNumeric(a) /\ IsNumeric(b)) => StrictSuccessor(a.num, b.num)

\* C2: a numeric heading that is not strictly next relative to the last
\* accepted number is merged into the most recently emitted section, never
\* emitted; the document with headings 1.1.1, 1.1.2, 1.1.4 gives two sections,
\* the second one holding the heading 1.1.4.
HeadingLines == SelectSeq(AllLines, IsHeadingLine)

C2_NotNextHeadingIsMerged ==
    /\ \A k \in 1..Len(split.log) :
          LET e == split.log[k]
          IN (/\ IsNumeric(e.item) /\ e.collecting /\ e.prev # <<>>
              /\ ~StrictSuccessor(e.prev, e.item.num))
             => e.what = "merged"
    /\ (/\ spc = "done"
        /\ HeadingLines = <<NUM(<<1, 1, 1>>), NUM(<<1, 1, 2>>), NUM(<<1, 1, 4>>)>>)
       => /\ Len(split.sections) = 2
          /\ Occurrences(NUM(<<1, 1, 4>>), split.sections[2].content) > 0

\* C3: collecting starts at the first chapter heading "제 1 장" or numeric
\* heading 1.1.1 the loop meets; the headings before it are ignored, and the
\* heading that starts collecting is the first section.
IsTrigger(line) == line = CH(1) \/ line = NUM(<<1, 1, 1>>)

C3_CollectStartsAtFirstTrigger ==
    /\ (\E k \in 1..Len(split.log) : IsTrigger(split.log[k].item)) => split.collect
    /\ \A k \in 1..Len(split.log) :
          (\A j \in 1..k : ~IsTrigger(split.log[j].item))
             => split.log[k].what = "ignored"
    /\ split.sections # <<>> => IsTrigger(split.sections[1].section_id)

\* C4 as stated: once the splitter has returned, every table of the page texts
\* appears exactly once in the sections' contents.
C4_EveryTableExactlyOnce ==
    spc = "done" =>
        \A t \in TablesOf(AllLines) : Occurrences(t, AllContent) = 1

\* C4 as amended: no table appears twice; the tables in the body of a heading
\* that was emitted or merged appear exactly once; the tables before the first
\* heading and in the body of a heading that was ignored or skipped do not
\* appear.
KeptTables ==
    UNION { TablesOf(SectionLines(page_texts, matches, k)) :
            k \in {j \in 1..Len(split.log) :
                      split.log[j].what \in {"emitted", "merged", "merged_body"}} }

C4_TablesOfKeptHeadingsOnce ==
    \A t \in TablesOf(AllLines) :
        Occurrences(t, AllContent) = (IF t \in KeptTables THEN 1 ELSE 0)

\* C4 witness: the splitter has returned, a heading was merged with a table in
\* its body, and another table of the document was lost.
C4_Witness ==
    /\ spc = "done"
    /\ \E k \in 1..Len(split.log) :
          /\ split.log[k].what = "merged"
          /\ TablesOf(SectionLines(page_texts, matches, k)) # {}
    /\ \E t \in TablesOf(AllLines) : t \notin KeptTables

(***************************************************************************)
(* Claims about process_file_task and the worker                           *)
(***************************************************************************)
ProcessingTasks == {t \in DOMAIN tasks : tasks[t].status = PROCESSING}

\* C5: when split_pdf_by_section_headings returns an empty list for a PDF,
\* the caller then runs the token-window splitter on the document.
C5_EmptySectionsFallBackToTokenWindow ==
    \A t \in DOMAIN runs :
        (/\ runs[t].splitters # <<>>
         /\ runs[t].splitters[1] = SectionSplitter
         /\ runs[t].sections = 0)
        => \E i \in 2..Len(runs[t].splitters) :
              runs[t].splitters[i] = WindowSplitter(".pdf")

\* C6: if processing a document yields zero sections, process_file_task ends
\* with the task FAILED with a non-empty error message, and the uploaded file
\* and its .meta.json are deleted.
C6_ZeroSectionsFailAndCleanUp ==
    \A t \in DOMAIN runs :
        (runs[t].ended /\ runs[t].sections = 0)
        => /\ tasks[t].status = FAILED
           /\ tasks[t].error \notin {NULL, ""}
           /\ tasks[t].file_path # NoPath
           /\ tasks[t].file_path \notin DOMAIN uploads_dir
           /\ MetaPath(tasks[t].file_path) \notin DOMAIN uploads_dir

\* C6 witness: a call of process_file_task has ended on a document that gave
\* zero sections.
C6_Witness ==
    \E t \in DOMAIN runs :
        /\ runs[t].ended
        /\ runs[t].sections = 0
        /\ runs[t].splitters # <<>>
        /\ tasks[t].status = FAILED

\* C9: the worker processes one task at a time: at most one task is
\* PROCESSING, and it is the task the worker is in the middle of.
C9_AtMostOneProcessing ==
    /\ Cardinality(ProcessingTasks) <= 1
    /\ \A t \in ProcessingTasks : worker.at = "sleep" /\ worker.task_id = t

\* C9 witness: the worker is in the middle of one task while another task
\* waits on the queue and a third party (a cancel or the stale check) has
\* already failed a task.
C9_Witness ==
    /\ \E t \in ProcessingTasks :
          \E u \in DOMAIN tasks :
             /\ u # t
             /\ tasks[u].status = QUEUED
             /\ \E i \in 1..Len(processing_queue) : processing_queue[i] = u
    /\ clock > 0

(***************************************************************************)
(* Claims about the token-window splitters                                 *)
(***************************************************************************)
ChunkRange(c) == c.content.from .. (c.content.to - 1)
IsFullWindow(c) == c.start_token + win.window_size <= win.total_tokens
Shared(c, d) == Cardinality(ChunkRange(c) \cap ChunkRange(d))

ChunksCoverAllTokens ==
    /\ \A i \in 1..Len(win.chunks) :
          /\ win.chunks[i].content.from = win.chunks[i].start_token
          /\ win.chunks[i].content.to =
                Min(win.chunks[i].start_token + win.window_size, win.total_tokens)
    /\ UNION {ChunkRange(win.chunks[i]) : i \in 1..Len(win.chunks)}
          = 0..(win.total_tokens - 1)

ValidWindowArguments == 0 <= win.overlap /\ win.overlap < win.window_size

\* C7 as stated: for 0 <= overlap < window_size the chunks' token ranges
\* [start, min(start + window_size, total_tokens)) cover [0, total_tokens)
\* without a gap, and every two adjacent chunks, except the pair that ends in
\* the final chunk, share exactly overlap tokens.
C7_AdjacentChunksShareOverlap ==
    (wpc = "done" /\ ValidWindowArguments) =>
        /\ ChunksCoverAllTokens
        /\ \A i \in 1..(Len(win.chunks) - 2) :
              Shared(win.chunks[i], win.chunks[i + 1]) = win.overlap

\* C7 as amended: the ranges cover [0, total_tokens) without a gap, and a
\* chunk that is a full window (start + window_size <= total_tokens) shares
\* exactly overlap tokens with the chunk after it.
C7_FullWindowsShareOverlap ==
    (wpc = "done" /\ ValidWindowArguments) =>
        /\ ChunksCoverAllTokens
        /\ \A i \in 1..(Len(win.chunks) - 1) :
              IsFullWindow(win.chunks[i])
                 => Shared(win.chunks[i], win.chunks[i + 1]) = win.overlap

\* C7 witness: the splitter has returned at least three chunks with a
\* positive overlap, and a chunk before the last two is cut short by the end
\* of the tokens.
C7_Witness ==
    /\ wpc = "done"
    /\ ValidWindowArguments
    /\ win.overlap > 0
    /\ \E i \in 1..(Len(win.chunks) - 2) :
          /\ ~IsFullWindow(win.chunks[i])
          /\ Shared(win.chunks[i], win.chunks[i + 1]) # win.overlap

\* C8: the token-window loop terminates for every total_tokens, window_size
\* and overlap: every iteration moves the window start forward, towards
\* total_tokens, where the loop exits.
C8_EveryIterationAdvances ==
    [][Len(win'.chunks) > Len(win.chunks) => win'.start > win.start]_vars

(***************************************************************************)
(* Claims about the page-text assembly                                     *)
(***************************************************************************)
\* C10: when cropping a page to the margin band yields empty text, the
\* assembled text of the page is the text of the full uncropped page (with
\* the page's images); the page is not dropped.
C10_EmptyCropUsesFullPage ==
    /\ Len(clean.crop) = Len(clean.cleaned_pages)
    /\ \A p \in 1..Len(clean.cleaned_pages) :
          clean.crop[p] = "empty"
             => clean.cleaned_pages[p] =
                   insert_images_in_text(extract_text(clean.pages, p), p,
                                         clean.image_map)

(***************************************************************************)
(* Claims about chapters, appendices and the hierarchy                     *)
(***************************************************************************)
\* The heading of log entry k is a numeric heading of chapter N met right
\* after the chapter heading "제 N 장" was emitted, and its number was not met
\* before.  The headings 3.x.y and the deep headings with an empty body have
\* rules of their own (1046-1055, 1135-1139) and are left out.
FirstHeadingAfterChapter(k) ==
    /\ k >= 2
    /\ split.log[k - 1].item.kind = "ch"
    /\ split.log[k - 1].what = "emitted"
    /\ IsNumeric(split.log[k].item)
    /\ split.log[k].item.num[1] = split.log[k - 1].item.num[1]
    /\ Len(split.log[k].item.num) = 2
    /\ \A j \in 1..(k - 1) : split.log[j].item # split.log[k].item

\* C16: after an accepted chapter heading "제 N 장", the next numeric heading is
\* emitted as a section of its own when it is N.1 or another subsection of
\* chapter N that was not seen before.
C16_FirstSubsectionAfterChapterEmitted ==
    \A k \in 1..Len(split.log) :
        FirstHeadingAfterChapter(k) => split.log[k].what = "emitted"

\* C17: a heading whose number repeats that of a section already emitted is
\* not emitted again: no two emitted sections have the same section_id.
C17_SectionIdsAreUnique ==
    \A i, j \in 1..Len(split.sections) :
        i # j => split.sections[i].section_id # split.sections[j].section_id

\* C18: an appendix heading "첨부 N" is emitted as a section exactly when
\* collecting has started and a chapter heading numbered 6 or higher was
\* accepted earlier in the document, whatever the appendix number is.
ChapterSixSeenBefore(k) ==
    \E j \in 1..(k - 1) :
        /\ split.log[j].item.kind = "ch"
        /\ split.log[j].item.num[1] >= 6
        /\ split.log[j].what = "emitted"

C18_AppendixEmittedIffPastChapterSix ==
    \A k \in 1..Len(split.log) :
        split.log[k].item.kind = "app"
            => (split.log[k].what = "emitted"
                    <=> (split.log[k].collecting /\ ChapterSixSeenBefore(k)))

\* C19: a numeric heading with first component 3 and more than two components
\* (3.1.2) is never emitted as a section of its own, and its body is appended
\* to the section emitted last, in sequence or not.  Once collecting has
\* started there is such a section, the chapter that started it; the body of
\* the heading of log entry k is SectionLines(page_texts, matches, k).
IsLegacyThree(line) ==
    IsNumeric(line) /\ line.num[1] = 3 /\ Len(line.num) > 2

C19_LegacyThreeAlwaysMerged ==
    \A k \in 1..Len(split.log) :
        IsLegacyThree(split.log[k].item)
            => /\ split.log[k].what # "emitted"
               /\ (split.log[k].collecting
                      /\ SectionLines(page_texts, matches, k) # <<>>)
                     => split.log[k].what \in {"merged", "merged_body"}

\* C20: in every emitted section the section_hierarchy entries above the
\* section's own level are its ancestors: a numeric entry's number is a
\* proper prefix of the section's number, and the entry of the top level is
\* the chapter whose number is the section's first component.
IsAncestorEntry(e, line) ==
    IF e.depth = 0 THEN e.id = CH(line.num[1])
    ELSE /\ IsNumeric(e.id)
         /\ e.depth < Len(line.num)
         /\ e.id.num = SubSeq(line.num, 1, e.depth)

C20_HierarchyEntriesAreAncestors ==
    \A i \in 1..Len(split.sections) :
        LET section == split.sections[i]
        IN IsNumeric(section.section_id)
              => \A e \in section.section_hierarchy :
                    e.depth < Len(section.section_id.num)
                        => IsAncestorEntry(e, section.section_id)

(***************************************************************************)
(* Claims about header/footer detection                                    *)
(***************************************************************************)
\* C12: a failure inside the header/footer detection never leaves the page
\* text assembly as an exception; the assembly goes on with the caller's
\* margin ratios.
C12_DetectionFailureNeverPropagates ==
    /\ dpc # "raised"
    /\ (dpc = "done" /\ detect.fault \in {"library", "ZeroDivisionError"})
          => /\ detect.top_margin_ratio = detect.caller.top
             /\ detect.bottom_margin_ratio = detect.caller.bottom

\* Some similarity cluster of the lines of one position, at the top or at the
\* bottom of the pages as the detector read them, covers 40% of the pages.
ClusterReaches(is_header) ==
    \E i \in 1..3 :
        \E groups \in {text_groups(LinesAt(detect.lines_with_y, i, is_header), <<>>)} :
            \E g \in 1..Len(groups) :
                10 * Len(groups[g].items) >= 4 * Len(detect.pages)

\* C13: for the header and for the footer, each by itself: when no cluster
\* covers 40% of the pages the ratio the pages are cropped with is the
\* caller's; a detected ratio takes its place only when a cluster does.
C13_StaticRatioUnlessClusterReaches ==
    dpc \in {"pages", "done"}
        => /\ ~ClusterReaches(TRUE) => detect.top_margin_ratio = detect.caller.top
           /\ ~ClusterReaches(FALSE) => detect.bottom_margin_ratio = detect.caller.bottom

\* C13 witness: three pages were read, a cluster of top lines covers 40% of
\* them and the detected ratio replaced the caller's top ratio, while the
\* pages have bottom lines of which no cluster reaches 40%, and the bottom
\* ratio is the caller's.
C13_Witness ==
    /\ dpc = "done"
    /\ Len(detect.pages) = 3
    /\ ClusterReaches(TRUE)
    /\ detect.top_margin_ratio # detect.caller.top
    /\ detect.top_margin_ratio = detect.detected_top
    /\ LinesAt(detect.lines_with_y, 1, FALSE) # <<>>
    /\ ~ClusterReaches(FALSE)
    /\ detect.bottom_margin_ratio = detect.caller.bottom

(***************************************************************************)
(* Claims about image extraction                                           *)
(***************************************************************************)
\* The (filename, URL) pairs a call returned, page by page and in order.
NamesOf(image_map) ==
    [p \in 1..Len(image_map) |->
        [k \in 1..Len(image_map[p]) |->
            <<image_map[p][k].dst_filename, image_map[p][k].image_url>>]]

\* C15: the stored filename and the URL of an accepted image are determined by
\* the image alone: two extractions of the same PDF give the same filenames
\* and URLs, and images with the same pixels get the same name.
C15_ImageNamesAreContentAddressed ==
    /\ \A i, j \in 1..Len(images.returned) :
          NamesOf(images.returned[i]) = NamesOf(images.returned[j])
    /\ \A i, j \in 1..Len(images.returned) :
          \A p \in 1..Len(images.returned[i]), q \in 1..Len(images.returned[j]) :
             \A k \in 1..Len(images.returned[i][p]), l \in 1..Len(images.returned[j][q]) :
                images.returned[i][p][k].pixels = images.returned[j][q][l].pixels
                   => images.returned[i][p][k].image_url = images.returned[j][q][l].image_url

\* The text of a block between its two markers.
BetweenMarkers(text, table_num, page_num) ==
    SubSeq(text, Len(start_marker(table_num, page_num)) + 1,
           Len(text) - Len(end_marker(table_num, page_num)))

\* A cell appears in text as an entry "<header>: <value>".  A value of
\* several lines also counts when the name of its column appears with its
\* colon and each of its lines appears.
AppearsAsEntry(header, value, text) ==
    \/ Contains(value_line(<<>>, header, value), text)
    \/ /\ Contains(<<"\n">>, value)
       /\ Contains(header \o <<":">>, text)
       /\ \A k \in 1..Len(cleaned_lines(value)) :
              Contains(cleaned_lines(value)[k], text)

\* C14: the block table_to_text returns for a non-empty grid, table number N
\* and page P starts with the begin marker of (N, P) and ends with the end
\* marker of (N, P), and when the first row was detected as a header, every
\* non-empty cell of a data row in a column after the first appears between
\* the markers as an entry "<header>: <value>" under the name of its column.
C14_BlockHoldsEveryHeaderValue ==
    tpc = "done" =>
        /\ StartsWith(table.text, start_marker(table.table_num, table.page_num))
        /\ EndsWith(table.text, end_marker(table.table_num, table.page_num))
        /\ table.first_row_is_header =>
              \A r \in 2..Len(table.data) : \A c \in 2..Len(table.data[r]) :
                  ~IsBlank(table.data[r][c]) =>
                      AppearsAsEntry(clean_whitespace(table.data[1][c], FALSE),
                                     clean_whitespace(table.data[r][c], TRUE),
                                     BetweenMarkers(table.text, table.table_num,
                                                    table.page_num))

\* There is a content block of the given type, content and top.
HasBlock(type, text, top) ==
    \E i \in 1..Len(content.blocks) :
        /\ content.blocks[i].type = type
        /\ content.blocks[i].content = text
        /\ content.blocks[i].top = top

\* C11: when the extraction or the formatting of one table of a page raises,
\* the page is still assembled: that table gives no block and no markers, its
\* region is not excluded, so each of its lines of characters is a block of
\* plain text at its place; every table that was extracted is there as its
\* formatted block, every line outside the tables is there, and the result is
\* the blocks from the top down, one per line.  Only a failure of
\* page.find_tables() itself ends the call with an exception.
C11_FailedTableIsSkippedAlone ==
    /\ epc = "raised" => content.fault = "find_tables"
    /\ epc = "done" =>
         \A t \in 1..Len(content.tables) :
             content.tables[t].outcome = "raises" =>
                 /\ \A i \in 1..Len(content.blocks) :
                        content.blocks[i].type = "table"
                            => content.blocks[i].bbox # content.tables[t].bbox
                 /\ ~Contains(start_marker(t, content.page_num), content.result)
                 /\ \A r \in content.tables[t].first..content.tables[t].last :
                        /\ HasBlock("text", content.chars[r].text, RowTop(r))
                        /\ Contains(content.chars[r].text, content.result)
                 /\ \A u \in 1..Len(content.tables) :
                        content.tables[u].outcome = "ok" =>
                            \E rounds_above \in BOOLEAN :
                                HasBlock("table",
                                         table_to_text(
                                             extract_table_with_linebreaks(content.tables[u]),
                                             u, content.page_num, rounds_above),
                                         content.tables[u].bbox[1])
                 /\ \A r \in 1..MaxContentRows :
                        ~InTable(content.tables, r) /\ strip(content.chars[r].text) # <<>>
                            => HasBlock("text", content.chars[r].text, RowTop(r))
                 /\ \A i \in 1..(Len(content.blocks) - 1) :
                        content.blocks[i].top <= content.blocks[i + 1].top
                 /\ content.result =
                        join(<<"\n">>, [i \in 1..Len(content.blocks) |->
                                           content.blocks[i].content])

\* A page is assembled of which one table raised, another was extracted and
\* a line of text lies outside both.
C11_Witness ==
    /\ epc = "done"
    /\ \E t, u \in 1..Len(content.tables) :
           /\ content.tables[t].outcome = "raises"
           /\ content.tables[u].outcome = "ok"
    /\ \E r \in 1..MaxContentRows :
           ~InTable(content.tables, r) /\ content.chars[r].text = Sentence(r)

\* C21: in the structure parse_cell_structure returns for the lines of a
\* cell, the first line has level 0; a later line whose marker was met on an
\* earlier line after the first has the level of that line; a later line
\* with a marker not met before has the level of the line just before it
\* plus one.
C21_NewMarkerNestsBelowPreviousLine ==
    lpc = "done" =>
        /\ Len(cell_call.structure) = Len(cell_call.lines)
        /\ cell_call.structure[1].level = 0
        /\ \A i \in 2..Len(cell_call.lines) :
              extract_symbol_pattern(cell_call.lines[i]) # NoSymbol =>
                  IF \E j \in 2..(i - 1) :
                         extract_symbol_pattern(cell_call.lines[j])
                             = extract_symbol_pattern(cell_call.lines[i])
                  THEN \A j \in 2..(i - 1) :
                           extract_symbol_pattern(cell_call.lines[j])
                               = extract_symbol_pattern(cell_call.lines[i])
                           => cell_call.structure[i].level = cell_call.structure[j].level
                  ELSE cell_call.structure[i].level
                           = cell_call.structure[i - 1].level + 1

\* C22: the start_page of every chunk of split_pdf_by_token_window is the
\* number of the page whose token span [s_idx, e_idx) in
\* page_token_boundaries holds the chunk's start token.
C22_StartPageHoldsStartToken ==
    win.variant = "pdf" =>
        \A c \in 1..Len(win.chunks) :
            \E i \in 1..Len(win.boundaries) :
                /\ win.boundaries[i].s_idx <= win.chunks[c].start_token
                /\ win.chunks[c].start_token < win.boundaries[i].e_idx
                /\ win.chunks[c].start_page = win.boundaries[i].page_num

(***************************************************************************)
(* Claims about cancelling, dismissing and timing out tasks                *)
(***************************************************************************)
\* C23: cancel_task changes a task only if its status is UPLOADING or QUEUED;
\* the task is then FAILED and True is returned.  For a task in PROCESSING,
\* COMPLETED or FAILED and for an unknown task id it returns False and
\* leaves the rows and the files as they are.  No other task's row changes.
C23_CancelOnlyUploadingOrQueued ==
    \A task_id \in TaskIds :
        \E out \in {cancel_task(Current, task_id, clock)} :
            /\ IF /\ task_id \in DOMAIN tasks
                  /\ tasks[task_id].status \in {UPLOADING, QUEUED}
               THEN /\ out.result
                    /\ out.rows[task_id].status = FAILED
               ELSE /\ ~out.result
                    /\ out.rows = tasks
                    /\ out.dir = uploads_dir
            /\ \A t \in DOMAIN tasks \ {task_id} : out.rows[t] = tasks[t]

\* A cancel was accepted for one task while another is being processed, so
\* that a cancel of the other one is refused.
C23_Witness ==
    \E a \in cancelled, t \in DOMAIN tasks :
        /\ tasks[a].status = FAILED
        /\ tasks[t].status = PROCESSING
        /\ ~cancel_task(Current, t, clock).result

\* C24: a task is marked dismissed only while its status is COMPLETED or
\* FAILED, whichever entry point the request comes through; a dismiss
\* request for a task in UPLOADING, QUEUED or PROCESSING leaves it undismissed.
C24_DismissedOnlyWhenFinished ==
    [][\A t \in DOMAIN tasks :
           (~tasks[t].is_dismissed /\ tasks'[t].is_dismissed)
               => tasks[t].status \in {COMPLETED, FAILED}]_vars

C26_FinishedStatusNeverChanges ==
    [][\A t \in DOMAIN tasks :
           tasks[t].status \in {COMPLETED, FAILED}
               => tasks'[t].status = tasks[t].status]_vars

\* C27: after cancel_task has returned True for a task, the task never
\* reaches COMPLETED and no document of it is written to the document store.
C27_CancelledTaskIsNeverProcessed ==
    \A t \in cancelled :
        /\ tasks[t].status # COMPLETED
        /\ \A d \in document_store : d.task_id # t

C29_OutOfOrderHeadingIsNotEmitted ==
    [][(spc = "build" /\ idx <= Len(matches) /\ idx' = idx + 1) =>
          LET line == matches[idx].match_text
              l == section_number_list(line)
          IN (/\ IsNumeric(line)
              /\ split.expected_chapter_num # NoChapter
              /\ l[1] = split.expected_chapter_num
              /\ is_out_of_order(l, split.expected_chapter_num,
                                 split.current_chapter_sections))
                 => split'.log[Len(split'.log)].what # "emitted"]_vars

(***************************************************************************)
(* Claims about WebSocket connections                                      *)
(***************************************************************************)
\* C30: whenever the websocket_endpoint handler of a connection has finished
\* (client disconnect, error, or a failed keep-alive ping), the connection
\* is no longer in ConnectionManager.active_connections.
C30_FinishedSocketIsNotActive ==
    \A s \in DOMAIN endpoints :
        endpoints[s].at = "finished"
            => \A key \in DOMAIN active_connections : s \notin active_connections[key]

====
